---- MODULE Spec2Model ----
(***************************************************************************)
(* Leaderboard aggregation, ranking, rank-movement tracking and streak     *)
(* detection of the IPL prediction-poll scripts (src/scripts).             *)
(*                                                                         *)
(* Five state machines share this module, one per pipeline component:      *)
(*   SpecRank    the Ranker (calculate_ranks) on sorted score lists        *)
(*   SpecWeekly  the weekly Match Aggregator (combine_csv_files)           *)
(*   SpecScan    the per-participant streak scan                           *)
(*   SpecStreak  the Streak Analyzer over a season of matches              *)
(*   Spec        the Season Aggregator with its RankSnapshot store         *)
(* Points are integers here: the scripts hold them as floats, and nothing  *)
(* below depends on a fractional part.                                     *)
(***************************************************************************)
EXTENDS Integers, Sequences, FiniteSets, TLC

VARIABLES
  \* ---- Ranker
  rk_board,        \* the scores of the list handed to calculate_ranks
  rk_prev,         \* the prev_ranks dict handed to the season calculate_ranks
  rk_out,          \* the ranked list it returned
  rk_pc,
  \* ---- weekly Match Aggregator (2-generate_weekly_leaderboard.py)
  files_seen,      \* files of all_files the "for file in all_files" loop has opened
  rows_seen,       \* rows of the open file the "for row in reader" loop has read
  user_data,       \* username -> row being built
  user_order,      \* the usernames of user_data in the dict's insertion order
  match_number,
  all_usernames,
  match_users,
  weekly_out,      \* what combine_csv_files wrote: None or the ranked rows
  wk_pc,
  \* ---- streak scan of one participant (7-generate_winners_list.py)
  votes,           \* one participant's chronological (poll, points) list
  scan_idx,        \* entries of votes the scan loop has consumed
  scan_win,        \* the locals of get_winning_streak's scan
  scan_lose,       \* the locals of get_losing_streak's scan
  \* ---- Streak Analyzer (7-generate_winners_list.py)
  polls_seen,      \* files of all_polls the processing loop has reached
  cur_poll,        \* the rows of the match file being processed, or None
  cur_num,         \* the number its name starts with ("<number>-..."), 0 for none
  streaks,         \* insertion-ordered dict username -> list of (poll, points)
  win_list,        \* get_winning_streak's result
  lose_list,       \* get_losing_streak's result
  excluded_set,    \* the excluded_users main() hands to get_winning_streak
  top_n,           \* the n of the two calls
  overall_win,     \* get_overall_winning_streak's result
  overall_lose,    \* get_overall_losing_streak's result
  st_pc,
  \* ---- Season Aggregator (3a-generate_overall_winner_leaderboard.py)
  weekly_dir,      \* results/weekly/poll_winner: week number -> weekly file
  INCLUDE_PLAYOFFS,\* the flag of line 10
  playoff_file,    \* data/processed/playoff_predictions.csv, or None
  ranks_dir,       \* results/ranks/poll_winner: week number -> snapshot file
  output_file,     \* the overall leaderboard CSV last written, or None
  WEEK,            \* the week the current or last invocation is configured for
  leaderboard_list,\* the invocation's ranked rows
  pc,
  ranks_at_start,  \* history: the WEEK snapshot file when the invocation started
  repeat,          \* history: the invocation before this one was for the same
                   \* week and returned its output
  \* ---- combined season rollup (4-generate_overall_leaderboard.py)
  week_num,        \* get_numeric_week(WEEK) of the invocation
  winner_file,     \* results/overall/poll_winner/week<week_num>.csv, or None
  margin_file,     \* results/overall/poll_margin/week<week_num>.csv, or None
  dirs_made,       \* results/overall/combined and results/ranks/combined exist
  combined_ranks,  \* results/ranks/combined: week number -> snapshot file
  combined_output, \* the combined CSV of week_num, or None
  cb_pc,
  \* ---- display names in the weekly, season and detailed aggregators
  records_seen,    \* records of the processed sequence read so far
  last_name,       \* history: username -> display name of its last record read
  weekly_display,  \* user_data[username]['Display Name'] of script 2
  season_display,  \* leaderboard[username]['Display Name'] of script 3a
  detailed_display,\* combined_data[username]['Display Name'] of script 5a
  \* ---- margin-poll extractor (1b-generate_margin_results.py)
  poll_margin,     \* parse_margin's (margin_number, margin_unit)
  answers,         \* json_data['answers'], each with its parsed range
  match_points,    \* float(json_data.get("points", 1))
  poll_votes,      \* json_data['votes']: username and answerId of each vote
  winning_answer_id,
  csv_rows,        \* the rows appended so far; sorted once written
  mg_pc

rankVars   == <<rk_board, rk_prev, rk_out, rk_pc>>
weeklyVars == <<files_seen, rows_seen, user_data, user_order, match_number, all_usernames,
                match_users, weekly_out, wk_pc>>
scanVars   == <<votes, scan_idx, scan_win, scan_lose>>
streakVars == <<polls_seen, cur_poll, cur_num, streaks, win_list, lose_list, excluded_set,
                top_n, overall_win, overall_lose, st_pc>>
seasonVars == <<weekly_dir, INCLUDE_PLAYOFFS, playoff_file, ranks_dir, output_file, WEEK, leaderboard_list,
                pc, ranks_at_start, repeat>>
combinedVars == <<week_num, winner_file, margin_file, dirs_made, combined_ranks,
                  combined_output, cb_pc>>
nameVars == <<records_seen, last_name, weekly_display, season_display, detailed_display>>
marginVars == <<poll_margin, answers, match_points, poll_votes, winning_answer_id, csv_rows, mg_pc>>
vars == <<rankVars, weeklyVars, scanVars, streakVars, seasonVars, combinedVars,
          nameVars, marginVars>>

-----------------------------------------------------------------------------
(* Shared helpers *)

\* Python's None, and an optional value
None == <<>>
Some(x) == <<x>>

\* The empty mapping (an empty dict), and d[k] = v on a dict
EmptyMap == [x \in {} |-> 0]
Put(d, k, v) == [x \in DOMAIN d \cup {k} |-> IF x = k THEN v ELSE d[x]]

Range(s) == {s[i] : i \in 1..Len(s)}

RECURSIVE SumOver(_, _)
SumOver(f, S) ==
  IF S = {} THEN 0
  ELSE LET x == CHOOSE y \in S : TRUE IN f[x] + SumOver(f, S \ {x})

\* All sequences over S of length 0..n
SeqsUpTo(S, n) == UNION {[1..k -> S] : k \in 0..n}

\* list.sort(key=lambda x: (-x[total], x['Username'])): usernames are dict keys,
\* hence distinct, so the key is a total order; names are compared as strings.
NameOrder == <<"a", "b", "c", "d">>
NameIdx(u) == CHOOSE i \in 1..Len(NameOrder) : NameOrder[i] = u
NameLess(u, v) == NameIdx(u) < NameIdx(v)

\* Mutant: the sort key is the total alone
SortedInsert_total_only(e, lst, key) ==
  LET above == {i \in 1..Len(lst) : lst[i][key] >= e[key]}
  IN SubSeq(lst, 1, Cardinality(above)) \o <<e>>
       \o SubSeq(lst, Cardinality(above) + 1, Len(lst))

RECURSIVE SortedInsert(_, _, _)
SortedInsert(e, lst, key) ==
  IF lst = <<>> THEN <<e>>
  ELSE LET h == Head(lst)
           before == \/ e[key] > h[key]
                     \/ e[key] = h[key] /\ NameLess(e.Username, h.Username)
       IN IF before THEN <<e>> \o lst
          ELSE <<h>> \o SortedInsert(e, Tail(lst), key)

\* list.sort of a list, a stable sort: each entry goes behind the entries
\* before it that it does not precede
RECURSIVE sort_list(_, _)
sort_list(lst, key) ==
  IF lst = <<>> THEN <<>>
  ELSE SortedInsert(lst[Len(lst)], sort_list(SubSeq(lst, 1, Len(lst) - 1), key), key)

RECURSIVE SortByTotal(_, _)
SortByTotal(S, key) ==
  IF S = {} THEN <<>>
  ELSE LET e == CHOOSE x \in S : TRUE
       IN SortedInsert(e, SortByTotal(S \ {e}, key), key)

-----------------------------------------------------------------------------
(* Ranker: calculate_ranks *)

MaxLen == 6       \* longest list ranked in SpecRank
MaxScore == 3     \* scores 0..MaxScore in SpecRank
MaxPrevRank == 3  \* ranks 1..MaxPrevRank in the previous snapshot of SpecRank

\* Mutant: on a score decrease the standard rank advances by one (no skip)
weekly_rank_step_noskip(i, points, prev_points, current_rank, dense_rank) ==
  IF prev_points # None /\ points < prev_points[1]
  THEN [current_rank |-> current_rank + 1, dense_rank |-> dense_rank + 1]
  ELSE [current_rank |-> current_rank, dense_rank |-> dense_rank]

\* Mutant: on a score decrease the dense rank jumps to the position (skips)
weekly_rank_step_skip(i, points, prev_points, current_rank, dense_rank) ==
  IF prev_points # None /\ points < prev_points[1]
  THEN [current_rank |-> i, dense_rank |-> i]
  ELSE [current_rank |-> current_rank, dense_rank |-> dense_rank]

\* Lines 30-32 of the weekly calculate_ranks: i is 1-based here, so the code's
\* "current_rank = i + 1" is "current_rank = i"
weekly_rank_step(i, points, prev_points, current_rank, dense_rank) ==
  IF prev_points # None /\ points < prev_points[1]
  THEN [current_rank |-> i, dense_rank |-> dense_rank + 1]
  ELSE [current_rank |-> current_rank, dense_rank |-> dense_rank]

\* The "for i, entry in enumerate(leaderboard)" loop of the weekly calculate_ranks
RECURSIVE weekly_rank_loop(_, _, _, _, _, _, _)
weekly_rank_loop(leaderboard, points_key, i, current_rank, dense_rank, prev_points, result) ==
  IF i > Len(leaderboard) THEN result
  ELSE LET entry == leaderboard[i]
           points == entry[points_key]
           r == weekly_rank_step(i, points, prev_points, current_rank, dense_rank)
           ranked == entry @@ [StandardRank |-> r.current_rank, DenseRank |-> r.dense_rank]
       IN weekly_rank_loop(leaderboard, points_key, i + 1, r.current_rank, r.dense_rank,
                           Some(points), Append(result, ranked))

\* calculate_ranks of 2-generate_weekly_leaderboard.py
weekly_calculate_ranks(leaderboard, points_key) ==
  IF leaderboard = <<>> THEN leaderboard
  ELSE weekly_rank_loop(leaderboard, points_key, 1, 1, 1, None, <<>>)

\* The four movement strings of the season calculate_ranks. The script's up
\* arrow (U+2191), down arrow (U+2193) and dash (U+2014) are written "^", "v"
\* and "--" here; the magnitude is formatted in decimal as the f-string does.
UpIndicator(n) == "^" \o ToString(n)
DownIndicator(n) == "v" \o ToString(n)
NeutralIndicator == "--"
NewIndicator == "N"

\* Mutant: an unchanged rank is formatted as an upward move of 0
movement_indicator_ge(movement) ==
  IF movement >= 0 THEN "^" \o ToString(movement)
  ELSE "v" \o ToString(-movement)

\* Lines 65-69 and 70-74: up with m if m > 0, down with -m if m < 0, else the dash
movement_indicator(movement) ==
  IF movement > 0 THEN "^" \o ToString(movement)
  ELSE IF movement < 0 THEN "v" \o ToString(-movement)
  ELSE "--"

\* Mutant: a participant missing from the previous snapshot is shown as unchanged
entry_movement_nonew(username, dense_rank, current_standard_rank, prev) ==
  IF prev # EmptyMap /\ username \in DOMAIN prev
  THEN [DenseRankMovement |-> movement_indicator(prev[username].dense - dense_rank),
        StandardRankMovement |->
            movement_indicator(prev[username].standard - current_standard_rank)]
  ELSE [DenseRankMovement |-> "--", StandardRankMovement |-> "--"]

\* Lines 57-77 of the season calculate_ranks: the two movement columns of one entry
entry_movement(username, dense_rank, current_standard_rank, prev) ==
  IF prev # EmptyMap /\ username \in DOMAIN prev
  THEN LET prev_dense_rank == prev[username].dense
           prev_std_rank == prev[username].standard
           dense_movement == prev_dense_rank - dense_rank
           std_movement == prev_std_rank - current_standard_rank
       IN [DenseRankMovement |-> movement_indicator(dense_movement),
           StandardRankMovement |-> movement_indicator(std_movement)]
  ELSE [DenseRankMovement |-> "N", StandardRankMovement |-> "N"]

\* Mutant: the 0-based "i + 1" of line 52 taken on the 1-based position
season_rank_step_late(i, points, prev_points, current_standard_rank, dense_rank) ==
  IF prev_points # None /\ points < prev_points[1]
  THEN [current_standard_rank |-> i + 1, dense_rank |-> dense_rank + 1]
  ELSE [current_standard_rank |-> current_standard_rank, dense_rank |-> dense_rank]

\* Lines 51-53 of the season calculate_ranks (i is 1-based here)
season_rank_step(i, points, prev_points, current_standard_rank, dense_rank) ==
  IF prev_points # None /\ points < prev_points[1]
  THEN [current_standard_rank |-> i, dense_rank |-> dense_rank + 1]
  ELSE [current_standard_rank |-> current_standard_rank, dense_rank |-> dense_rank]

\* The "for i, entry in enumerate(leaderboard)" loop of the season calculate_ranks
RECURSIVE season_rank_loop(_, _, _, _, _, _, _, _)
season_rank_loop(leaderboard, points_key, prev, i, current_standard_rank, dense_rank, prev_points, result) ==
  IF i > Len(leaderboard) THEN result
  ELSE LET entry == leaderboard[i]
           points == entry[points_key]
           r == season_rank_step(i, points, prev_points, current_standard_rank, dense_rank)
           ranked == entry @@ [StandardRank |-> r.current_standard_rank,
                               DenseRank |-> r.dense_rank]
                           @@ entry_movement(entry.Username, r.dense_rank,
                                             r.current_standard_rank, prev)
       IN season_rank_loop(leaderboard, points_key, prev, i + 1, r.current_standard_rank,
                           r.dense_rank, Some(points), Append(result, ranked))

\* calculate_ranks of 3a-generate_overall_winner_leaderboard.py (the copy in
\* 4-generate_overall_leaderboard.py is the same text)
calculate_ranks(leaderboard, points_key, prev) ==
  IF leaderboard = <<>> THEN leaderboard
  ELSE season_rank_loop(leaderboard, points_key, prev, 1, 1, 1, None, <<>>)

-----------------------------------------------------------------------------
(* SpecRank: calculate_ranks applied to every sorted list within the bounds *)

UserName(i) == "u" \o ToString(i)

IsSortedDesc(s) == \A i \in 1..(Len(s) - 1) : s[i] >= s[i + 1]

SortedBoards == {s \in SeqsUpTo(0..MaxScore, MaxLen) : IsSortedDesc(s)}

\* The list of dicts a caller hands over: one entry per score, under points_key
BoardEntries(scores, points_key) ==
  [i \in 1..Len(scores) |->
     [Username |-> UserName(i)] @@ (points_key :> scores[i])]

\* The prev_ranks dicts a snapshot can hold for a list: a {"dense", "standard"}
\* pair (a dense rank never exceeds the standard rank) for none, one or two of
\* its participants
RankPairs == {p \in [dense : 1..MaxPrevRank, standard : 1..MaxPrevRank] :
                p.dense <= p.standard}
PrevRanks(scores) ==
  LET names == {UserName(i) : i \in 1..Len(scores)}
  IN UNION {[U -> RankPairs] : U \in {V \in SUBSET names : Cardinality(V) <= 2}}

RankIdle == rk_board = <<>> /\ rk_prev = <<>> /\ rk_out = <<>> /\ rk_pc = "off"
WeeklyIdle ==
  /\ files_seen = 0 /\ rows_seen = 0 /\ user_data = EmptyMap /\ match_number = 0
  /\ user_order = <<>>
  /\ all_usernames = {} /\ match_users = {} /\ weekly_out = None /\ wk_pc = "off"
ScanIdle == votes = <<>> /\ scan_idx = 0 /\ scan_win = None /\ scan_lose = None
StreakIdle ==
  /\ polls_seen = 0 /\ cur_poll = None /\ cur_num = 0 /\ streaks = <<>> /\ win_list = <<>>
  /\ lose_list = <<>> /\ excluded_set = {} /\ top_n = 0 /\ overall_win = None
  /\ overall_lose = None /\ st_pc = "off"
SeasonIdle ==
  /\ weekly_dir = EmptyMap /\ ranks_dir = EmptyMap /\ output_file = None /\ WEEK = 0
  /\ INCLUDE_PLAYOFFS = FALSE /\ playoff_file = None
  /\ leaderboard_list = <<>> /\ pc = "off"
  /\ ranks_at_start = None /\ repeat = FALSE
CombinedIdle ==
  /\ week_num = 0 /\ winner_file = <<>> /\ margin_file = <<>> /\ dirs_made = FALSE
  /\ combined_ranks = <<>> /\ combined_output = <<>> /\ cb_pc = "off"
NamesIdle ==
  /\ records_seen = 0 /\ last_name = <<>> /\ weekly_display = <<>>
  /\ season_display = <<>> /\ detailed_display = <<>>
MarginIdle ==
  /\ poll_margin = <<>> /\ answers = <<>> /\ match_points = 0 /\ poll_votes = <<>> /\ winning_answer_id = <<>>
  /\ csv_rows = <<>> /\ mg_pc = "off"

InitRank ==
  /\ rk_board \in SortedBoards
  /\ rk_prev = EmptyMap
  /\ rk_out = <<>>
  /\ rk_pc = "input"
  /\ WeeklyIdle /\ ScanIdle /\ StreakIdle /\ SeasonIdle /\ CombinedIdle /\ NamesIdle /\ MarginIdle

\* The weekly script ranks its sorted list
RankWeekly ==
  /\ rk_pc = "input"
  /\ rk_out' = weekly_calculate_ranks(BoardEntries(rk_board, "Total_Points"), "Total_Points")
  /\ rk_pc' = "weekly"
  /\ UNCHANGED <<rk_board, rk_prev, weeklyVars, scanVars, streakVars, seasonVars, combinedVars, nameVars, marginVars>>

\* The season script ranks its sorted list against a previous snapshot
RankSeason ==
  /\ rk_pc = "input"
  /\ \E prev \in PrevRanks(rk_board) :
       /\ rk_prev' = prev
       /\ rk_out' = calculate_ranks(BoardEntries(rk_board, "Total"), "Total", prev)
  /\ rk_pc' = "season"
  /\ UNCHANGED <<rk_board, weeklyVars, scanVars, streakVars, seasonVars, combinedVars, nameVars, marginVars>>

NextRank == RankWeekly \/ RankSeason

SpecRank == InitRank /\ [][NextRank]_vars

RankedNow == rk_pc \in {"weekly", "season"}

\* C1: every entry of a list sorted by score descending gets the Standard Rank
\* 1 + (number of entries with a strictly greater score), by the weekly and by
\* the season calculate_ranks; the ranked list keeps the length of its input.
C1_StandardRank ==
  RankedNow =>
    /\ Len(rk_out) = Len(rk_board)
    /\ \A i \in 1..Len(rk_board) :
         rk_out[i].StandardRank =
           1 + Cardinality({j \in 1..Len(rk_board) : rk_board[j] > rk_board[i]})

\* The shape of the example 10,10,7,5,5,5: a tie, a lower score, a triple tie
ExampleBoard ==
  /\ Len(rk_board) = 6
  /\ rk_board[1] = rk_board[2] /\ rk_board[2] > rk_board[3] /\ rk_board[3] > rk_board[4]
  /\ rk_board[4] = rk_board[5] /\ rk_board[5] = rk_board[6]

\* C1 witness: the example list ranked 1,1,3,4,4,4
C1_Witness ==
  /\ RankedNow /\ ExampleBoard
  /\ [i \in 1..6 |-> rk_out[i].StandardRank] = <<1, 1, 3, 4, 4, 4>>

\* C2: every entry gets the Dense Rank equal to the number of distinct scores
\* greater than or equal to its own; the first entry gets 1 and the rank rises
\* by exactly 1 at each strict score decrease.
C2_DenseRank ==
  RankedNow =>
    /\ Len(rk_out) = Len(rk_board)
    /\ \A i \in 1..Len(rk_board) :
         /\ rk_out[i].DenseRank =
              Cardinality({rk_board[j] : j \in {k \in 1..Len(rk_board) :
                                                  rk_board[k] >= rk_board[i]}})
         /\ i = 1 => rk_out[i].DenseRank = 1
         /\ i > 1 => rk_out[i].DenseRank =
                       rk_out[i - 1].DenseRank +
                         (IF rk_board[i] < rk_board[i - 1] THEN 1 ELSE 0)

\* C2 witness: the example list ranked 1,1,2,3,3,3
C2_Witness ==
  /\ RankedNow /\ ExampleBoard
  /\ [i \in 1..6 |-> rk_out[i].DenseRank] = <<1, 1, 2, 3, 3, 3>>

\* C26: in every list the weekly or the season calculate_ranks has ranked, the
\* entry at position p has 1 <= Dense Rank <= Standard Rank <= p, neither rank
\* decreases along the list, and two entries share the Standard Rank exactly
\* when they share the Dense Rank, which is exactly when their scores are equal.
C26_RankInvariants ==
  RankedNow =>
    /\ \A p \in 1..Len(rk_out) :
         /\ 1 <= rk_out[p].DenseRank
         /\ rk_out[p].DenseRank <= rk_out[p].StandardRank
         /\ rk_out[p].StandardRank <= p
    /\ \A p, q \in 1..Len(rk_out) :
         /\ p < q => /\ rk_out[p].StandardRank <= rk_out[q].StandardRank
                     /\ rk_out[p].DenseRank <= rk_out[q].DenseRank
         /\ rk_out[p].StandardRank = rk_out[q].StandardRank
              <=> rk_out[p].DenseRank = rk_out[q].DenseRank
         /\ rk_out[p].DenseRank = rk_out[q].DenseRank <=> rk_board[p] = rk_board[q]

\* C26 witness: the season ranking of a list of three different scores behind
\* a tie: the last entry has Dense Rank 3 below Standard Rank 4 below position 5
C26_Witness ==
  /\ rk_pc = "season" /\ Len(rk_out) = 5
  /\ rk_board[1] = rk_board[2]
  /\ rk_out[4].DenseRank = 3 /\ rk_out[4].StandardRank = 4
  /\ rk_out[5].DenseRank = 3 /\ rk_out[5].StandardRank = 4

\* The rendering the movement columns are to show for a movement m
Rendered(m, shown) ==
  /\ m > 0 => shown = UpIndicator(m)
  /\ m < 0 => shown = DownIndicator(-m)
  /\ m = 0 => shown = NeutralIndicator
  /\ shown \notin {UpIndicator(0), DownIndicator(0)}

\* C7: in the season calculate_ranks, for every participant present in the
\* previous snapshot and for the dense and the standard rank each on its own,
\* movement = previous rank - current rank is shown as the up indicator with
\* magnitude movement when it is positive, as the down indicator with magnitude
\* -movement when it is negative, and as the neutral indicator when it is 0;
\* an unchanged rank is never shown as a delta of 0.
C7_MovementRendering ==
  rk_pc = "season" =>
    \A i \in 1..Len(rk_out) :
      rk_out[i].Username \in DOMAIN rk_prev =>
        /\ Rendered(rk_prev[rk_out[i].Username].dense - rk_out[i].DenseRank,
                    rk_out[i].DenseRankMovement)
        /\ Rendered(rk_prev[rk_out[i].Username].standard - rk_out[i].StandardRank,
                    rk_out[i].StandardRankMovement)

\* C7 witness: one participant of the previous snapshot keeps the dense rank
\* while falling one standard rank, another rises two ranks in both schemes
C7_Witness ==
  /\ rk_pc = "season"
  /\ \E i, j \in 1..Len(rk_out) :
       /\ {rk_out[i].Username, rk_out[j].Username} \subseteq DOMAIN rk_prev
       /\ rk_out[i].DenseRankMovement = NeutralIndicator
       /\ rk_out[i].StandardRankMovement = DownIndicator(1)
       /\ rk_prev[rk_out[i].Username].standard = rk_out[i].StandardRank - 1
       /\ rk_out[j].DenseRankMovement = UpIndicator(2)
       /\ rk_out[j].StandardRankMovement = UpIndicator(2)

-----------------------------------------------------------------------------
(* SpecWeekly: the weekly Match Aggregator, combine_csv_files.  The match    *)
(* files and their rows are the environment's: each step of the two loops    *)
(* reads the next one, whatever it is.                                       *)

MaxFiles == 2     \* match files in the week's directory
MaxRows == 2      \* rows in one match file

\* The numbers a Points field that parses holds: a loss, a win, and a negative
NumPoints == {-1, 0, 1}

WkUsers == {"a", "b"}

\* The Points field of a row as csv.DictReader returns it: a text float()
\* parses ("num"), a text it rejects with ValueError ("bad"), or None for a
\* row shorter than the header ("missing": float(None) raises TypeError)
PointsFields ==
  {[kind |-> "num", v |-> n] : n \in NumPoints}
    \cup {[kind |-> "bad", v |-> 0], [kind |-> "missing", v |-> 0]}

WkRows == [Username : WkUsers, Team_Voted_Short : {"CSK"}, Points : PointsFields]

\* Lines 82-85: try float(...) except ValueError: 0.0
parse_points(field) == IF field.kind = "num" THEN field.v ELSE 0

\* defaultdict(lambda: {'Total_Points': 0.0}): the row of a username
row_of(ud, username) ==
  IF username \in DOMAIN ud THEN ud[username]
  ELSE [Total_Points |-> 0, Match |-> EmptyMap]

\* Lines 87-90: one parsed record stored under the current match number
store_record(ud, row, points, mn) ==
  LET old == row_of(ud, row.Username)
  IN Put(ud, row.Username,
         [Total_Points |-> old.Total_Points + points,
          Match |-> Put(old.Match, mn,
                        [Team_Short |-> row.Team_Voted_Short, Points |-> points])])

\* Lines 94-97: the default for every known username without the current match
fill_defaults(ud, usernames, mn) ==
  [u \in DOMAIN ud |->
     IF u \in usernames /\ mn \notin DOMAIN ud[u].Match
     THEN [ud[u] EXCEPT !.Match = Put(@, mn, [Team_Short |-> "---", Points |-> 0])]
     ELSE ud[u]]

\* Line 107: the list of row dicts, in the order of user_data.items(); line
\* 108: sorted by (-Total_Points, Username)
weekly_leaderboard_list(ud, order) ==
  sort_list([i \in 1..Len(order) |->
               [Username |-> order[i], Total_Points |-> ud[order[i]].Total_Points,
                Match |-> ud[order[i]].Match]], "Total_Points")

\* csv.DictWriter.writerows: rows are written in order until one holds a key
\* that is not in fieldnames, where it raises ValueError
RECURSIVE rows_written(_, _)
rows_written(rows, match_fields) ==
  IF rows = <<>> THEN <<>>
  ELSE IF ~(DOMAIN Head(rows).Match \subseteq match_fields) THEN <<>>
  ELSE <<Head(rows)>> \o rows_written(Tail(rows), match_fields)

InitWeekly ==
  /\ files_seen = 0 /\ rows_seen = 0
  /\ user_data = EmptyMap
  /\ user_order = <<>>
  /\ match_number = 1
  /\ all_usernames = {}
  /\ match_users = {}
  /\ weekly_out = None
  /\ wk_pc = "loop"
  /\ RankIdle /\ ScanIdle /\ StreakIdle /\ SeasonIdle /\ CombinedIdle /\ NamesIdle /\ MarginIdle

\* Lines 68-77: the next file is opened; without the required headers (or when
\* opening it raises) the loop goes on to the next file, match_number unchanged
WkOpenFile ==
  /\ wk_pc = "loop"
  /\ files_seen < MaxFiles
  /\ \E headers_ok \in BOOLEAN :
       /\ files_seen' = files_seen + 1
       /\ rows_seen' = 0
       /\ match_users' = {}
       /\ wk_pc' = IF headers_ok THEN "rows" ELSE "loop"
  /\ UNCHANGED <<user_data, user_order, match_number, all_usernames, weekly_out>>
  /\ UNCHANGED <<rankVars, scanVars, streakVars, seasonVars, combinedVars, nameVars, marginVars>>

\* Lines 78-91: one row of the open file; a short row raises TypeError, which
\* the handler of line 100 catches: the rest of the file, the default fill and
\* the increment of match_number are skipped
WkReadRow ==
  /\ wk_pc = "rows"
  /\ rows_seen < MaxRows
  /\ \E row \in WkRows :
       IF row.Points.kind = "missing"
       THEN /\ wk_pc' = "loop"
            /\ match_users' = {}
            /\ rows_seen' = 0
            /\ UNCHANGED <<user_data, user_order>>
       ELSE /\ user_data' = store_record(user_data, row, parse_points(row.Points),
                                         match_number)
            /\ user_order' = IF row.Username \in DOMAIN user_data THEN user_order
                             ELSE Append(user_order, row.Username)
            /\ match_users' = match_users \cup {row.Username}
            /\ rows_seen' = rows_seen + 1
            /\ UNCHANGED wk_pc
  /\ UNCHANGED <<files_seen, match_number, all_usernames, weekly_out>>
  /\ UNCHANGED <<rankVars, scanVars, streakVars, seasonVars, combinedVars, nameVars, marginVars>>

\* Lines 93-99: the file ends
WkEndFile ==
  /\ wk_pc = "rows"
  /\ all_usernames' = all_usernames \cup match_users
  /\ user_data' = fill_defaults(user_data, all_usernames \cup match_users, match_number)
  /\ match_number' = match_number + 1
  /\ match_users' = {}
  /\ rows_seen' = 0
  /\ wk_pc' = "loop"
  /\ UNCHANGED <<files_seen, user_order, weekly_out>>
  /\ UNCHANGED <<rankVars, scanVars, streakVars, seasonVars, combinedVars, nameVars, marginVars>>

\* Lines 58-61 and 103-123: after the last file.  No file at all, or no file
\* that got a match number, returns None; otherwise the rows are sorted, ranked
\* and written.
WkFinish ==
  /\ wk_pc = "loop"
  /\ IF files_seen = 0 THEN wk_pc' = "no_files" /\ UNCHANGED weekly_out
     ELSE IF match_number = 1 THEN wk_pc' = "no_valid" /\ UNCHANGED weekly_out
     ELSE LET ranked == weekly_calculate_ranks(weekly_leaderboard_list(user_data, user_order),
                                               "Total_Points")
              match_fields == 1..(match_number - 1)
              written == rows_written(ranked, match_fields)
          IN /\ weekly_out' = Some([match_fields |-> match_fields, rows |-> written])
             /\ wk_pc' = IF Len(written) = Len(ranked) THEN "done" ELSE "raised"
  /\ UNCHANGED <<files_seen, rows_seen, user_data, user_order, match_number,
                 all_usernames, match_users>>
  /\ UNCHANGED <<rankVars, scanVars, streakVars, seasonVars, combinedVars, nameVars, marginVars>>

NextWeekly == WkOpenFile \/ WkReadRow \/ WkEndFile \/ WkFinish

SpecWeekly == InitWeekly /\ [][NextWeekly]_vars

WeeklyRows == IF weekly_out = None THEN <<>> ELSE weekly_out[1].rows

\* C3: in the weekly output every participant row has a Match_k choice and a
\* Match_k points value for every k from 1 to the number of matches processed.
C3_EveryMatchColumn ==
  wk_pc = "done" =>
    \A i \in 1..Len(WeeklyRows) :
      DOMAIN WeeklyRows[i].Match = 1..(match_number - 1)

\* C4: in the weekly output each row's Total_Points is the sum of the row's
\* Match_k_Points over its match columns.
C4_TotalIsSum ==
  wk_pc = "done" =>
    \A i \in 1..Len(WeeklyRows) :
      WeeklyRows[i].Total_Points =
        SumOver([k \in DOMAIN WeeklyRows[i].Match |-> WeeklyRows[i].Match[k].Points],
                DOMAIN WeeklyRows[i].Match)

\* C16: a record whose Points field is unparseable or missing is recovered
\* where it stands: once a match file is being read, each record read is
\* stored under the match's label (with 0.0 for such a field) and reading goes
\* on, and the file ends with the match having received its own label.
C16_LocalRecovery ==
  [][wk_pc = "rows" =>
       \/ /\ wk_pc' = "rows"
          /\ rows_seen' = rows_seen + 1
          /\ \E u \in DOMAIN user_data' :
               /\ match_number \in DOMAIN user_data'[u].Match
               /\ u \in match_users'
       \/ /\ wk_pc' = "loop"
          /\ match_number' = match_number + 1]_vars

\* C17: in every row of the weekly output each match's points and the total
\* are non-negative, whatever the Points fields of the input hold.
C17_NonNegative ==
  wk_pc = "done" =>
    \A i \in 1..Len(WeeklyRows) :
      /\ WeeklyRows[i].Total_Points >= 0
      /\ \A k \in DOMAIN WeeklyRows[i].Match : WeeklyRows[i].Match[k].Points >= 0

\* C15: the order of the output rows and their ranks are fixed by the
\* (total, username) pairs alone: rows stand by total descending and, within a
\* total, by username ascending, and the Standard and Dense rank of a row
\* count the greater totals.  Usernames being distinct, one arrangement only
\* meets this, whatever the order in which rows were read and participants
\* first seen.
C15_OrderIndependent ==
  wk_pc = "done" =>
    /\ \A i, j \in 1..Len(WeeklyRows) :
         i < j =>
           \/ WeeklyRows[i].Total_Points > WeeklyRows[j].Total_Points
           \/ /\ WeeklyRows[i].Total_Points = WeeklyRows[j].Total_Points
              /\ NameLess(WeeklyRows[i].Username, WeeklyRows[j].Username)
    /\ \A i \in 1..Len(WeeklyRows) :
         LET above == {j \in 1..Len(WeeklyRows) :
                         WeeklyRows[j].Total_Points > WeeklyRows[i].Total_Points}
         IN /\ WeeklyRows[i].StandardRank = 1 + Cardinality(above)
            /\ WeeklyRows[i].DenseRank =
                 1 + Cardinality({WeeklyRows[j].Total_Points : j \in above})

\* C15 witness: the participant first seen second ties the one first seen
\* first and stands before it in the output
C15_Witness ==
  /\ wk_pc = "done" /\ Len(user_order) = 2 /\ Len(WeeklyRows) = 2
  /\ WeeklyRows[1].Username = user_order[2]
  /\ WeeklyRows[2].Username = user_order[1]
  /\ WeeklyRows[1].Total_Points = WeeklyRows[2].Total_Points
  /\ WeeklyRows[1].Total_Points > 0
  /\ WeeklyRows[2].StandardRank = 1

-----------------------------------------------------------------------------
(* The streak scan of 7-generate_winners_list.py.  A vote is (poll, points)  *)
(* with points None for a match the participant did not vote in.  Indices    *)
(* are the code's 0-based ones: votes[idx] of the code is votes[idx + 1].    *)

\* The locals before the loop, lines 132-136 and 230-234
scan_start ==
  [current_streak |-> 0, max_user_streak |-> 0, start_idx |-> 0,
   best_start_idx |-> 0, best_end_idx |-> 0]

\* Mutant: the best run is replaced when the current run reaches its length
extend_run_latest(idx, st) ==
  LET start == IF st.current_streak = 0 THEN idx ELSE st.start_idx
      cur == st.current_streak + 1
  IN IF cur >= st.max_user_streak
     THEN [current_streak |-> cur, max_user_streak |-> cur, start_idx |-> start,
           best_start_idx |-> start, best_end_idx |-> idx]
     ELSE [st EXCEPT !.current_streak = cur, !.start_idx = start]

\* Lines 142-148 and 240-246: a qualifying vote extends the run
extend_run(idx, st) ==
  LET start == IF st.current_streak = 0 THEN idx ELSE st.start_idx
      cur == st.current_streak + 1
  IN IF cur > st.max_user_streak
     THEN [current_streak |-> cur, max_user_streak |-> cur, start_idx |-> start,
           best_start_idx |-> start, best_end_idx |-> idx]
     ELSE [st EXCEPT !.current_streak = cur, !.start_idx = start]

\* Mutant: a match the participant did not vote in leaves the run as it is
win_scan_step_keep_absent(idx, points, st) ==
  IF points = None THEN st
  ELSE IF points[1] > 0 THEN extend_run(idx, st)
  ELSE [st EXCEPT !.current_streak = 0]

\* Lines 139-150: one iteration of get_winning_streak's scan
win_scan_step(idx, points, st) ==
  IF points = None THEN [st EXCEPT !.current_streak = 0]
  ELSE IF points[1] > 0 THEN extend_run(idx, st)
  ELSE [st EXCEPT !.current_streak = 0]

\* Lines 237-248: one iteration of get_losing_streak's scan
lose_scan_step(idx, points, st) ==
  IF points = None THEN [st EXCEPT !.current_streak = 0]
  ELSE IF points[1] = 0 THEN extend_run(idx, st)
  ELSE [st EXCEPT !.current_streak = 0]

RECURSIVE win_scan_loop(_, _, _)
win_scan_loop(vs, idx, st) ==
  IF idx >= Len(vs) THEN st
  ELSE win_scan_loop(vs, idx + 1, win_scan_step(idx, vs[idx + 1].points, st))

RECURSIVE lose_scan_loop(_, _, _)
lose_scan_loop(vs, idx, st) ==
  IF idx >= Len(vs) THEN st
  ELSE lose_scan_loop(vs, idx + 1, lose_scan_step(idx, vs[idx + 1].points, st))

\* Lines 132-150 and 230-248: the whole scan of one participant's votes
win_scan(vs) == win_scan_loop(vs, 0, scan_start)
lose_scan(vs) == lose_scan_loop(vs, 0, scan_start)

-----------------------------------------------------------------------------
(* SpecScan: the scan on every outcome sequence within the bounds *)

MaxVotes == 6     \* length of one participant's vote list

\* won (points 1), lost (points 0), absent (None)
VotePoints == {None, Some(0), Some(1)}

VoteLists ==
  {[i \in 1..Len(ps) |-> [poll |-> i, points |-> ps[i]]] :
     ps \in SeqsUpTo(VotePoints, MaxVotes)}

InitScan ==
  /\ votes \in VoteLists
  /\ scan_idx = 0
  /\ scan_win = scan_start
  /\ scan_lose = scan_start
  /\ RankIdle /\ WeeklyIdle /\ StreakIdle /\ SeasonIdle /\ CombinedIdle /\ NamesIdle /\ MarginIdle

\* One iteration of "for idx, (poll_file, points) in enumerate(votes)", in
\* get_winning_streak and in get_losing_streak
ScanStep ==
  /\ scan_idx < Len(votes)
  /\ scan_win' = win_scan_step(scan_idx, votes[scan_idx + 1].points, scan_win)
  /\ scan_lose' = lose_scan_step(scan_idx, votes[scan_idx + 1].points, scan_lose)
  /\ scan_idx' = scan_idx + 1
  /\ UNCHANGED votes
  /\ UNCHANGED <<rankVars, weeklyVars, streakVars, seasonVars, combinedVars, nameVars, marginVars>>

NextScan == ScanStep

SpecScan == InitScan /\ [][NextScan]_vars

IsWon(v) == v.points # None /\ v.points[1] > 0
IsLost(v) == v.points # None /\ v.points[1] = 0

\* The outcomes scanned so far, as "won", "lost" or "absent"
Outcome(v) == IF v.points = None THEN "absent" ELSE IF v.points[1] > 0 THEN "won" ELSE "lost"
Scanned == [i \in 1..scan_idx |-> Outcome(votes[i])]

\* Length of the longest contiguous block of `what` in the outcome sequence s
LongestBlock(s, what) ==
  LET blocks == {<<i, j>> \in (1..Len(s)) \X (1..Len(s)) :
                   i <= j /\ \A k \in i..j : s[k] = what}
      lens == {b[2] - b[1] + 1 : b \in blocks} \cup {0}
  IN CHOOSE m \in lens : \A l \in lens : l <= m

\* Number of `what` entries of s after its last entry that is not `what`
SinceReset(s, what) ==
  LET others == {i \in 1..Len(s) : s[i] # what}
      last == IF others = {} THEN 0 ELSE CHOOSE i \in others : \A j \in others : j <= i
  IN Len(s) - last

\* C5: at every point of the scan the winning streak length is the length of
\* the longest contiguous block of won entries seen so far, the running count
\* never exceeds the number of won entries since the last absent or lost
\* entry, and the same holds for the losing scan with lost entries.
C5_LongestRun ==
  /\ scan_win.max_user_streak = LongestBlock(Scanned, "won")
  /\ scan_win.current_streak <= SinceReset(Scanned, "won")
  /\ scan_lose.max_user_streak = LongestBlock(Scanned, "lost")
  /\ scan_lose.current_streak <= SinceReset(Scanned, "lost")

\* C5 witness: the example [win, win, absent, win, win, win] scanned to its
\* end with the longest winning run 3 (the trailing block), not 5
C5_Witness ==
  /\ scan_idx = 6
  /\ Scanned = <<"won", "won", "absent", "won", "won", "won">>
  /\ scan_win.max_user_streak = 3
  /\ scan_win.best_start_idx = 3 /\ scan_win.best_end_idx = 5

-----------------------------------------------------------------------------
(* SpecStreak: the Streak Analyzer over a season.  get_winning_streak and    *)
(* get_losing_streak read the same files with the same text (lines 89-125    *)
(* and 189-225), so the dict streaks is built once here.  The match files    *)
(* are the environment's; a poll is named by its number in all_polls order.  *)

MaxPolls == 3     \* match files of the season
TopN == 3         \* n, the number of streak entries main() asks for

StUsers == {"a", "b"}

\* The numbers match file names start with.  all_polls lists the weeks in
\* sorted(os.listdir) order and each week's files by their number (lines
\* 91-100), so the numbers need not rise along all_polls: they may restart in
\* a later week, repeat, or leave gaps.  Two numbers give every order two
\* participants' streak starts can have
PollNumbers == {1, 5}

\* The rows of a match file: (Username, Points), at most one per participant
PollFiles ==
  {rows \in SeqsUpTo([Username : StUsers, Points : 0..1], Cardinality(StUsers)) :
     \A i, j \in 1..Len(rows) : i # j => rows[i].Username # rows[j].Username}

\* Mutant: a match with all points 0 is processed like any other
is_washed_out_match_never(rows) == FALSE

\* Mutant: "all(p == 0 for p in points)" alone, true of a file with no rows
is_washed_out_match_all(rows) == \A i \in 1..Len(rows) : rows[i].Points = 0

\* is_washed_out_match: all(p == 0 for p in points) and points
is_washed_out_match(rows) ==
  /\ \A i \in 1..Len(rows) : rows[i].Points = 0
  /\ rows # <<>>

\* streaks[username].append(vote) on the insertion-ordered defaultdict(list)
add_vote(sk, username, vote) ==
  IF \E i \in 1..Len(sk) : sk[i].Username = username
  THEN [i \in 1..Len(sk) |->
          IF sk[i].Username = username
          THEN [sk[i] EXCEPT !.votes = Append(@, vote)] ELSE sk[i]]
  ELSE Append(sk, [Username |-> username, votes |-> <<vote>>])

\* A match file of all_polls: its position in all_polls (poll) and the number
\* its name starts with (num)
match_file_of(poll, num) == [poll |-> poll, num |-> num]

\* The tuple (match_file, points) of lines 120 and 125
vote_of(match_file, points) ==
  [poll |-> match_file.poll, num |-> match_file.num, points |-> points]

\* Lines 114-120: the rows of one match file, in file order
RECURSIVE append_rows(_, _, _)
append_rows(sk, match_file, rows) ==
  IF rows = <<>> THEN sk
  ELSE append_rows(add_vote(sk, Head(rows).Username,
                            vote_of(match_file, Some(Head(rows).Points))),
                   match_file, Tail(rows))

\* Lines 122-125: (match_file, None) for every known username that did not vote
record_non_participation(sk, match_file, participants) ==
  [i \in 1..Len(sk) |->
     IF sk[i].Username \notin participants
     THEN [sk[i] EXCEPT !.votes = Append(@, vote_of(match_file, None))]
     ELSE sk[i]]

\* Lines 106-125: one iteration of "for week, match_file in all_polls"
process_poll(sk, match_file, rows) ==
  IF is_washed_out_match(rows) THEN sk
  ELSE record_non_participation(append_rows(sk, match_file, rows), match_file,
                                {rows[i].Username : i \in 1..Len(rows)})

\* Lines 152-161: the tuple of one participant, when the longest run is not 0;
\* start_num is int(re.match(r'(\d+)-', name).group(1)) of the file at which the
\* best run starts
streak_entry(username, vs, st) ==
  [Username |-> username, streak_length |-> st.max_user_streak,
   start_poll |-> vs[st.best_start_idx + 1].poll,
   end_poll |-> vs[st.best_end_idx + 1].poll,
   start_num |-> vs[st.best_start_idx + 1].num]

\* Mutant: equal lengths are not ordered by the start of the streak
stable_insert_by_length(e, lst) ==
  LET longer == {i \in 1..Len(lst) : lst[i].streak_length >= e.streak_length}
  IN SubSeq(lst, 1, Cardinality(longer)) \o <<e>>
       \o SubSeq(lst, Cardinality(longer) + 1, Len(lst))

\* Mutant: an excluded user's streak is listed like any other
winning_streak_list_all(sk, excluded_users) ==
  [i \in 1..Len(SelectSeq(sk, LAMBDA e : win_scan(e.votes).max_user_streak > 0)) |->
     LET e == SelectSeq(sk, LAMBDA x : win_scan(x.votes).max_user_streak > 0)[i]
     IN [Username |-> e.Username,
         streak_length |-> win_scan(e.votes).max_user_streak,
         start_poll |-> e.votes[win_scan(e.votes).best_start_idx + 1].poll,
         end_poll |-> e.votes[win_scan(e.votes).best_end_idx + 1].poll,
         start_num |-> e.votes[win_scan(e.votes).best_start_idx + 1].num]]

\* streak_list.sort(key=lambda x: (-x[2], x[5])): a stable sort
RECURSIVE stable_insert(_, _)
stable_insert(e, lst) ==
  IF lst = <<>> THEN <<e>>
  ELSE LET h == Head(lst)
           before == \/ e.streak_length > h.streak_length
                     \/ e.streak_length = h.streak_length /\ e.start_num < h.start_num
       IN IF before THEN <<e>> \o lst ELSE <<h>> \o stable_insert(e, Tail(lst))

RECURSIVE sort_streaks(_)
sort_streaks(lst) ==
  IF lst = <<>> THEN <<>>
  ELSE stable_insert(lst[Len(lst)], sort_streaks(SubSeq(lst, 1, Len(lst) - 1)))

FirstN(lst, n) == SubSeq(lst, 1, IF Len(lst) < n THEN Len(lst) ELSE n)

\* Lines 127-161: the streak_list of get_winning_streak, in dict order
RECURSIVE winning_streak_list(_, _)
winning_streak_list(sk, excluded_users) ==
  IF sk = <<>> THEN <<>>
  ELSE LET e == sk[Len(sk)]
           rest == winning_streak_list(SubSeq(sk, 1, Len(sk) - 1), excluded_users)
           st == win_scan(e.votes)
       IN IF e.Username \in excluded_users THEN rest
          ELSE IF st.max_user_streak > 0
               THEN Append(rest, streak_entry(e.Username, e.votes, st))
               ELSE rest

\* Lines 227-259: the streak_list of get_losing_streak, in dict order
RECURSIVE losing_streak_list(_)
losing_streak_list(sk) ==
  IF sk = <<>> THEN <<>>
  ELSE LET e == sk[Len(sk)]
           rest == losing_streak_list(SubSeq(sk, 1, Len(sk) - 1))
           st == lose_scan(e.votes)
       IN IF st.max_user_streak > 0
          THEN Append(rest, streak_entry(e.Username, e.votes, st))
          ELSE rest

\* Lines 127-165 and 227-263: what the two functions return for a built dict
get_winning_streak(sk, excluded_users, n) ==
  FirstN(sort_streaks(winning_streak_list(sk, excluded_users)), n)
get_losing_streak(sk, n) == FirstN(sort_streaks(losing_streak_list(sk)), n)

\* Mutant: the single-winner query returns the last entry of the top list
get_overall_winning_streak_last(sk) ==
  IF get_winning_streak(sk, {}, TopN) # <<>>
  THEN Some(get_winning_streak(sk, {}, TopN)[Len(get_winning_streak(sk, {}, TopN))])
  ELSE None

\* Line 176: get_winning_streak(base_dir, set(), n=1)[0] if the list is not
\* empty, else None
get_overall_winning_streak(sk) ==
  IF get_winning_streak(sk, {}, 1) # <<>>
  THEN Some(get_winning_streak(sk, {}, 1)[1]) ELSE None

\* Line 274: get_losing_streak(base_dir, n=1)[0] if the list is not empty
get_overall_losing_streak(sk) ==
  IF get_losing_streak(sk, 1) # <<>> THEN Some(get_losing_streak(sk, 1)[1]) ELSE None

InitStreak ==
  /\ polls_seen = 0
  /\ cur_poll = None
  /\ cur_num = 0
  /\ streaks = <<>>
  /\ win_list = <<>>
  /\ lose_list = <<>>
  /\ excluded_set = {}
  /\ top_n = 0
  /\ overall_win = None
  /\ overall_lose = None
  /\ st_pc = "loop"
  /\ RankIdle /\ WeeklyIdle /\ ScanIdle /\ SeasonIdle /\ CombinedIdle /\ NamesIdle /\ MarginIdle

\* Line 106-107: the loop reaches the next match file of all_polls
StOpenPoll ==
  /\ st_pc = "loop"
  /\ polls_seen < MaxPolls
  /\ \E rows \in PollFiles : cur_poll' = Some(rows)
  /\ cur_num' \in PollNumbers
  /\ polls_seen' = polls_seen + 1
  /\ st_pc' = "poll"
  /\ UNCHANGED <<streaks, win_list, lose_list, excluded_set, top_n, overall_win,
                 overall_lose>>
  /\ UNCHANGED <<rankVars, weeklyVars, scanVars, seasonVars, combinedVars, nameVars, marginVars>>

\* Lines 108-125: the file is skipped when washed out, else recorded
StProcessPoll ==
  /\ st_pc = "poll"
  /\ streaks' = process_poll(streaks, match_file_of(polls_seen, cur_num), cur_poll[1])
  /\ cur_poll' = None
  /\ cur_num' = 0
  /\ st_pc' = "loop"
  /\ UNCHANGED <<polls_seen, win_list, lose_list, excluded_set, top_n, overall_win,
                 overall_lose>>
  /\ UNCHANGED <<rankVars, weeklyVars, scanVars, seasonVars, combinedVars, nameVars, marginVars>>

\* Lines 127-165 and 227-263 after the last file, as main() calls the four
\* queries (lines 338-347): the excluded users are the names main() read from
\* the overall leaderboard, n is the callers' (3 in main, 1 in the overall
\* queries)
StScan ==
  /\ st_pc = "loop"
  /\ \E winner_usernames \in SUBSET StUsers, n \in 1..TopN :
       /\ excluded_set' = winner_usernames
       /\ top_n' = n
       /\ win_list' = get_winning_streak(streaks, winner_usernames, n)
       /\ lose_list' = get_losing_streak(streaks, n)
  /\ overall_win' = get_overall_winning_streak(streaks)
  /\ overall_lose' = get_overall_losing_streak(streaks)
  /\ st_pc' = "done"
  /\ UNCHANGED <<polls_seen, cur_poll, cur_num, streaks>>
  /\ UNCHANGED <<rankVars, weeklyVars, scanVars, seasonVars, combinedVars, nameVars, marginVars>>

NextStreak == StOpenPoll \/ StProcessPoll \/ StScan

SpecStreak == InitStreak /\ [][NextStreak]_vars

\* A washed-out match as the claim defines it: at least one record, all points 0
WashedOut(rows) == Len(rows) >= 1 /\ \A i \in 1..Len(rows) : rows[i].Points = 0

\* C6: processing a washed-out match adds no entry to any participant's
\* streak sequence (the dict that the winning and the losing scan both read),
\* so it neither extends nor breaks a run: the dict, and with it every
\* reported streak, is what it would be without that match.
C6_WashoutAddsNothing ==
  [][(st_pc = "poll" /\ st_pc' = "loop" /\ WashedOut(cur_poll[1]))
       => streaks' = streaks]_vars

\* C6 witness: win, washout, win: a winning run of 2 from poll 1 to poll 3 of
\* a participant with no record in poll 2
C6_Witness ==
  /\ st_pc = "done"
  /\ \E i \in 1..Len(win_list) :
       /\ win_list[i].streak_length = 2
       /\ win_list[i].start_poll = 1 /\ win_list[i].end_poll = 3
  /\ \E i \in 1..Len(lose_list) :
       /\ lose_list[i].streak_length = 2
       /\ lose_list[i].start_poll = 1 /\ lose_list[i].end_poll = 3

\* The participants the season's dict knows, and one participant's outcomes
StreakUsers == {streaks[i].Username : i \in 1..Len(streaks)}
VotesOf(u) == streaks[CHOOSE i \in 1..Len(streaks) : streaks[i].Username = u].votes
OutcomesOf(u) == [i \in 1..Len(VotesOf(u)) |-> Outcome(VotesOf(u)[i])]

\* The longest run of `what` of participant u, and the match number at which
\* the first run of that length starts
RunLen(u, what) == LongestBlock(OutcomesOf(u), what)
RunStart(u, what) ==
  LET s == OutcomesOf(u)
      n == RunLen(u, what)
      starts == {i \in 1..(Len(s) - n + 1) : \A k \in i..(i + n - 1) : s[k] = what}
  IN VotesOf(u)[CHOOSE i \in starts : \A j \in starts : i <= j].num

\* The participants with a run of `what`, those of E left out
Qualifying(what, E) == {u \in StreakUsers \ E : RunLen(u, what) >= 1}

\* (length, start) x ranks strictly above (length, start) y
RanksAbove(xlen, xstart, ylen, ystart) ==
  xlen > ylen \/ (xlen = ylen /\ xstart < ystart)

\* lst is the first n entries of the ranking of Qualifying(what, E) by run
\* length descending, then start match number ascending
IsTopN(lst, what, E, n) ==
  LET Q == Qualifying(what, E)
      listed == {lst[i].Username : i \in 1..Len(lst)}
  IN /\ Len(lst) = (IF Cardinality(Q) < n THEN Cardinality(Q) ELSE n)
     /\ listed \subseteq Q
     /\ Cardinality(listed) = Len(lst)
     /\ \A i \in 1..Len(lst) :
          /\ lst[i].streak_length = RunLen(lst[i].Username, what)
          /\ lst[i].start_num = RunStart(lst[i].Username, what)
     /\ \A i, j \in 1..Len(lst) :
          i < j => ~RanksAbove(lst[j].streak_length, lst[j].start_num,
                               lst[i].streak_length, lst[i].start_num)
     /\ \A u \in Q \ listed : \A i \in 1..Len(lst) :
          ~RanksAbove(RunLen(u, what), RunStart(u, what),
                      lst[i].streak_length, lst[i].start_num)

\* C11: the list get_winning_streak / get_losing_streak returns is ordered by
\* streak length descending and, among equal lengths, by the match number at
\* which the streak starts ascending, and it holds exactly the first n entries
\* of that order.
C11_StreakOrder ==
  st_pc = "done" =>
    /\ IsTopN(win_list, "won", excluded_set, top_n)
    /\ IsTopN(lose_list, "lost", {}, top_n)

\* C11 witness: two winning streaks of equal length, the one that starts at the
\* match with the lower number listed first; and with n = 1 only that one listed
C11_Witness ==
  /\ st_pc = "done" /\ excluded_set = {}
  /\ Cardinality(Qualifying("won", {})) = 2
  /\ \A u \in Qualifying("won", {}) : RunLen(u, "won") = 1
  /\ \E u, v \in Qualifying("won", {}) : RunStart(u, "won") < RunStart(v, "won")
  /\ \/ /\ top_n = 1 /\ Len(win_list) = 1
        /\ \A v \in Qualifying("won", {}) : win_list[1].start_num <= RunStart(v, "won")
     \/ /\ top_n = 2 /\ Len(win_list) = 2
        /\ win_list[1].start_num < win_list[2].start_num

\* The season's dict without the participants of E
WithoutUsers(sk, E) == SelectSeq(sk, LAMBDA e : e.Username \notin E)

\* C12: for every excluding set E, get_winning_streak returns no participant
\* of E, and what it returns is the first n entries of the ranking computed
\* over the other participants alone: their lengths and starts are what they
\* are when nobody is excluded.
C12_ExcludedSet ==
  st_pc = "done" =>
    /\ \A i \in 1..Len(win_list) : win_list[i].Username \notin excluded_set
    /\ win_list = get_winning_streak(WithoutUsers(streaks, excluded_set), {}, top_n)
    /\ \A i \in 1..Len(win_list) :
         /\ win_list[i].streak_length = RunLen(win_list[i].Username, "won")
         /\ win_list[i].start_num = RunStart(win_list[i].Username, "won")

\* C12 witness: the participant with the longest winning streak is excluded
\* and the list holds the other one
C12_Witness ==
  /\ st_pc = "done" /\ Cardinality(excluded_set) = 1
  /\ Len(win_list) = 1
  /\ \E u \in excluded_set \cap StreakUsers :
       RunLen(u, "won") > win_list[1].streak_length

\* C13: each single-winner query returns None exactly when no participant has
\* a qualifying run of length at least 1, and otherwise the first entry of the
\* top-N ranking of all participants.
C13_OverallStreak ==
  st_pc = "done" =>
    /\ overall_win = None <=> Qualifying("won", {}) = {}
    /\ overall_win # None =>
         /\ IsTopN(<<overall_win[1]>>, "won", {}, 1)
         /\ overall_win[1] = get_winning_streak(streaks, {}, TopN)[1]
    /\ overall_lose = None <=> Qualifying("lost", {}) = {}
    /\ overall_lose # None =>
         /\ IsTopN(<<overall_lose[1]>>, "lost", {}, 1)
         /\ overall_lose[1] = get_losing_streak(streaks, TopN)[1]

\* C13 witness: somebody won two matches in a row and nobody who voted in a
\* counted match ever lost: an overall winning streak, no overall losing streak
C13_Witness ==
  /\ st_pc = "done" /\ streaks # <<>>
  /\ overall_lose = None /\ overall_win # None
  /\ overall_win[1].streak_length = 2
  /\ Cardinality(Qualifying("won", {})) = 2

-----------------------------------------------------------------------------
(* Spec: the Season Aggregator, generate_leaderboard of                      *)
(* 3a-generate_overall_winner_leaderboard.py, run again and again for a week *)
(* chosen by the caller (the WEEK constant edited between runs), over a      *)
(* fixed directory of weekly files and the RankSnapshot store it reads and   *)
(* writes.  A run may fail at its I/O steps.                                 *)

MaxWeek == 2      \* weeks 1..MaxWeek may have a weekly file and may be run
\* The Total_Points a weekly file gives a user
WeekTotals == {0, 1}

SnUsers == {"a", "b"}

\* The model writes every name in ASCII.  The names of this set stand for
\* usernames with a character outside ASCII, which takes several bytes in the
\* UTF-8 files the scripts write
NonAsciiNames == {"b"}

\* A weekly file results/weekly/poll_winner/week<w>.csv: absent (None), or its
\* rows as Username -> Total_Points
WeeklyFiles ==
  {None} \cup {Some(f) : f \in UNION {[U -> WeekTotals] : U \in SUBSET SnUsers}}

\* The weekly files of the runs that may fail: those of WeeklyFiles without a
\* file that has a row for b and none for a
RunWeeklyFiles ==
  {file \in WeeklyFiles : file = None \/ DOMAIN file[1] \in {{}, {"a"}, SnUsers}}

\* The decimal digits of a week number, as they stand in the file name
RECURSIVE Digits(_)
Digits(n) == IF n < 10 THEN <<n>> ELSE Append(Digits(n \div 10), n % 10)

\* "week<m>.csv" < "week<n>.csv" as Python orders str: digit by digit, and the
\* "." that follows the shorter number is below every digit
FileNameLess(m, n) ==
  LET a == Digits(m)
      b == Digits(n)
  IN \/ \E i \in 1..Len(a) :
          /\ i <= Len(b)
          /\ \A j \in 1..(i - 1) : a[j] = b[j]
          /\ a[i] < b[i]
     \/ Len(a) < Len(b) /\ \A j \in 1..Len(a) : a[j] = b[j]

\* sorted(...) of line 116 on a set of week numbers
RECURSIVE sorted_files(_)
sorted_files(S) ==
  IF S = {} THEN <<>>
  ELSE LET w == CHOOSE x \in S : \A y \in S \ {x} : FileNameLess(x, y)
       IN <<w>> \o sorted_files(S \ {w})

\* Line 22: int(week_name.lower().replace("week", "").strip()) of "week<n>"
get_numeric_week(n) == n

\* Mutant: a week up to the cutoff without a file aborts the selection
selected_files_complete(dir, week) ==
  IF \E w \in DOMAIN dir : w <= week /\ dir[w] = None THEN <<>>
  ELSE SelectSeq(sorted_files(DOMAIN dir), LAMBDA w : w <= week)

\* Lines 116-118: the existing weekly files up to the cutoff, in sorted order
selected_files(dir, week) ==
  LET all == sorted_files({w \in DOMAIN dir : dir[w] # None})
  IN SelectSeq(all, LAMBDA w : get_numeric_week(w) <= get_numeric_week(week))

\* Mutant: the run loads the snapshot of its own week
prev_week_num_same(week) == week

\* Line 106: prev_week_num = get_numeric_week(WEEK) - 1
prev_week_num(week) == get_numeric_week(week) - 1

\* Line 112: json.load reads the file as UTF-8 text first (the open of line
\* 111 has encoding='utf-8'); bytes that are not UTF-8 raise UnicodeDecodeError
snapshot_decodes(file) == file.utf8

\* json.load of a decoded snapshot file: a dict when the text is a complete
\* document (the entries json.dump writes, then the closing brace), else
\* JSONDecodeError
snapshot_parses(file) == file.closed
snapshot_dict(file) ==
  [u \in {file.entries[i].Username : i \in 1..Len(file.entries)} |->
     LET i == CHOOSE j \in 1..Len(file.entries) : file.entries[j].Username = u
     IN [dense |-> file.entries[i].dense, standard |-> file.entries[i].standard]]

\* Lines 109-113: the try block ends in an exception line 113 does not catch.
\* except json.JSONDecodeError lets the UnicodeDecodeError of a file that is
\* not UTF-8 leave generate_leaderboard
load_prev_raises(store, week) ==
  LET file == store[prev_week_num(week)]
  IN file # None /\ ~snapshot_decodes(file[1])

\* Lines 105-114: prev_ranks, when the try block raises nothing or what line
\* 113 catches
load_prev_ranks(store, week) ==
  LET file == store[prev_week_num(week)]
  IN IF file = None THEN EmptyMap
     ELSE IF snapshot_parses(file[1]) THEN snapshot_dict(file[1])
     ELSE EmptyMap

\* Lines 139-147: the rows of one weekly file stored under its week column
read_week(leaderboard, week_key, rows) ==
  [u \in DOMAIN leaderboard \cup DOMAIN rows |->
     IF u \in DOMAIN rows
     THEN Put(IF u \in DOMAIN leaderboard THEN leaderboard[u] ELSE EmptyMap,
              week_key, rows[u])
     ELSE leaderboard[u]]

\* Lines 128-129: week_key = week_name.capitalize() of "week<n>"
week_key(w) == "Week" \o ToString(w)

\* Lines 127-149: the loop over selected_files
RECURSIVE read_weeks(_, _, _)
read_weeks(dir, files, leaderboard) ==
  IF files = <<>> THEN leaderboard
  ELSE read_weeks(dir, Tail(files),
                  read_week(leaderboard, week_key(Head(files)), dir[Head(files)][1]))

\* Lines 150-172: with INCLUDE_PLAYOFFS the rows of the playoff file, when it
\* exists, are stored under 'Playoffs'
read_playoffs(leaderboard, include, playoffs) ==
  IF include /\ playoffs # None
  THEN read_week(leaderboard, "Playoffs", playoffs[1])
  ELSE leaderboard

\* Lines 127-130 and 175: columns = week_columns + ['Playoffs'] when included
season_columns(files, include) ==
  [i \in 1..Len(files) |-> week_key(files[i])]
    \o (IF include THEN <<"Playoffs">> ELSE <<>>)

\* Lines 178-183: total over the columns in order
RECURSIVE column_total(_, _)
column_total(data, columns) ==
  IF columns = <<>> THEN 0
  ELSE (IF Head(columns) \in DOMAIN data THEN data[Head(columns)] ELSE 0)
         + column_total(data, Tail(columns))

\* Mutant: a column without a record gets no value
season_entries_sparse(leaderboard, columns) ==
  {[Username |-> u,
    Weeks |-> [c \in Range(columns) \cap DOMAIN leaderboard[u] |-> leaderboard[u][c]],
    Total |-> column_total(leaderboard[u], columns)] : u \in DOMAIN leaderboard}

\* Lines 174-184: one entry per participant, 0.0 for a column without a record
season_entries(leaderboard, columns) ==
  {[Username |-> u,
    Weeks |-> [c \in Range(columns) |->
                 IF c \in DOMAIN leaderboard[u] THEN leaderboard[u][c] ELSE 0],
    Total |-> column_total(leaderboard[u], columns)] : u \in DOMAIN leaderboard}

\* Lines 124-187: the sorted, ranked list with its movement columns
ranked_leaderboard(dir, include, playoffs, store, week) ==
  LET files == selected_files(dir, week)
      columns == season_columns(files, include)
      leaderboard == read_playoffs(read_weeks(dir, files, EmptyMap), include, playoffs)
  IN calculate_ranks(SortByTotal(season_entries(leaderboard, columns), "Total"),
                     "Total", load_prev_ranks(store, week))

\* Lines 189-194: current_ranks, in the order json.dump writes its entries
current_ranks(list) ==
  [i \in 1..Len(list) |->
     [Username |-> list[i].Username, dense |-> list[i].DenseRank,
      standard |-> list[i].StandardRank]]

\* The snapshot file once json.dump has written all of current_ranks
complete_snapshot(list) ==
  Some([entries |-> current_ranks(list), closed |-> TRUE, utf8 |-> TRUE])

\* Line 195: the file open(..., 'w') has created or truncated: no byte yet
opened_snapshot == Some([entries |-> <<>>, closed |-> FALSE, utf8 |-> TRUE])

\* Line 196: the files a json.dump that does not finish can leave.  Every one is
\* a proper prefix of the document, kept as the file without an entry; a prefix
\* that ends inside the bytes of a character is not UTF-8, and json.dump
\* (ensure_ascii=False) writes such a character only for a name of NonAsciiNames
cut_snapshots(list) ==
  IF \E i \in 1..Len(list) : list[i].Username \in NonAsciiNames
  THEN {opened_snapshot, Some([entries |-> <<>>, closed |-> FALSE, utf8 |-> FALSE])}
  ELSE {opened_snapshot}

Init ==
  /\ weekly_dir \in [1..MaxWeek -> RunWeeklyFiles]
  /\ INCLUDE_PLAYOFFS = FALSE
  /\ playoff_file = None
  /\ ranks_dir = [w \in 0..MaxWeek |-> None]
  /\ output_file = None
  /\ WEEK = 0
  /\ leaderboard_list = <<>>
  /\ pc = "idle"
  /\ ranks_at_start = None
  /\ repeat = FALSE
  /\ RankIdle /\ WeeklyIdle /\ ScanIdle /\ StreakIdle /\ CombinedIdle /\ NamesIdle /\ MarginIdle

\* No invocation is running: the last one returned its output ("idle", also
\* before the first), returned None, or failed
Returned == pc \in {"idle", "returned_none", "failed"}

\* Lines 91-194 of an invocation for week n: everything up to the first write.
\* A previous snapshot that is not UTF-8 ends it in the exception of line 112,
\* before the weekly files are listed.  Without a weekly file up to the cutoff
\* it returns None (lines 120-122).
SnStart ==
  /\ Returned
  /\ \E n \in 1..MaxWeek :
       /\ WEEK' = n
       /\ IF load_prev_raises(ranks_dir, n)
          THEN /\ pc' = "failed"
               /\ leaderboard_list' = <<>>
               /\ ranks_at_start' = None
               /\ repeat' = FALSE
          ELSE IF selected_files(weekly_dir, n) = <<>>
          THEN /\ pc' = "returned_none"
               /\ leaderboard_list' = <<>>
               /\ ranks_at_start' = None
               /\ repeat' = FALSE
          ELSE /\ pc' = "ranked"
               /\ leaderboard_list' = ranked_leaderboard(weekly_dir, INCLUDE_PLAYOFFS, playoff_file,
                                                       ranks_dir, n)
               /\ ranks_at_start' = ranks_dir[n]
               /\ repeat' = (pc = "idle" /\ WEEK = n)
  /\ UNCHANGED <<weekly_dir, INCLUDE_PLAYOFFS, playoff_file, ranks_dir, output_file>>
  /\ UNCHANGED <<rankVars, weeklyVars, scanVars, streakVars, combinedVars, nameVars, marginVars>>

\* Line 195: open(<ranks_dir>/week<WEEK>.json, 'w') creates or truncates the
\* file
SnOpenRanks ==
  /\ pc = "ranked"
  /\ ranks_dir' = [ranks_dir EXCEPT ![WEEK] = opened_snapshot]
  /\ pc' = "dumping"
  /\ UNCHANGED <<weekly_dir, INCLUDE_PLAYOFFS, playoff_file, output_file, WEEK, leaderboard_list,
                 ranks_at_start, repeat>>
  /\ UNCHANGED <<rankVars, weeklyVars, scanVars, streakVars, combinedVars, nameVars, marginVars>>

\* Mutant: the dump also replaces the snapshot of the previous week
SnDump_previous ==
  /\ pc = "dumping"
  /\ ranks_dir' = [ranks_dir EXCEPT ![WEEK] = complete_snapshot(leaderboard_list),
                                    ![prev_week_num(WEEK)] = complete_snapshot(leaderboard_list)]
  /\ pc' = "dumped"
  /\ UNCHANGED <<weekly_dir, INCLUDE_PLAYOFFS, playoff_file, output_file, WEEK, leaderboard_list, ranks_at_start,
                 repeat>>
  /\ UNCHANGED <<rankVars, weeklyVars, scanVars, streakVars, combinedVars, nameVars, marginVars>>

\* Lines 196-197: json.dump fills the buffer of f and the end of the with block
\* flushes it: the file holds the complete document
SnDump ==
  /\ pc = "dumping"
  /\ ranks_dir' = [ranks_dir EXCEPT ![WEEK] = complete_snapshot(leaderboard_list)]
  /\ pc' = "dumped"
  /\ UNCHANGED <<weekly_dir, INCLUDE_PLAYOFFS, playoff_file, output_file, WEEK, leaderboard_list, ranks_at_start,
                 repeat>>
  /\ UNCHANGED <<rankVars, weeklyVars, scanVars, streakVars, combinedVars, nameVars, marginVars>>

\* Lines 198-204: the CSV is written
SnWriteOutput ==
  /\ pc = "dumped"
  /\ output_file' = Some([week |-> WEEK,
                          columns |-> season_columns(selected_files(weekly_dir, WEEK),
                                                     INCLUDE_PLAYOFFS),
                          rows |-> leaderboard_list, cut |-> FALSE])
  /\ pc' = "written"
  /\ UNCHANGED <<weekly_dir, INCLUDE_PLAYOFFS, playoff_file, ranks_dir, WEEK, leaderboard_list,
                 ranks_at_start, repeat>>
  /\ UNCHANGED <<rankVars, weeklyVars, scanVars, streakVars, combinedVars, nameVars, marginVars>>

\* Lines 206-209: the invocation returns output_file; its locals are gone
SnReturn ==
  /\ pc = "written"
  /\ pc' = "idle"
  /\ leaderboard_list' = <<>>
  /\ ranks_at_start' = None
  /\ repeat' = FALSE
  /\ UNCHANGED <<weekly_dir, INCLUDE_PLAYOFFS, playoff_file, ranks_dir, output_file, WEEK>>
  /\ UNCHANGED <<rankVars, weeklyVars, scanVars, streakVars, combinedVars, nameVars, marginVars>>

\* Lines 201-204: the file a CSV write that does not finish leaves.
\* open(output_file, 'w') has truncated the file and it holds a proper prefix
\* of the text, from no byte to all but the last.  No step of the season run
\* reads the file: every prefix is kept as the file without a line, cut TRUE.
cut_output(week) == Some([week |-> week, columns |-> <<>>, rows |-> <<>>, cut |-> TRUE])

\* The invocation ends in an exception or is killed.  Nothing in
\* generate_leaderboard catches it or restores a file.
\*   "ranked":  at the open of line 195, the snapshot file untouched;
\*   "dumping": inside json.dump or the flush of line 196, the snapshot file a
\*              prefix of the document;
\*   "dumped":  at lines 198-201 with the CSV untouched, or at lines 202-204
\*              after open(output_file, 'w') has truncated it;
\*   "written": at lines 206-209, both files written.
SnFail ==
  /\ pc \in {"ranked", "dumping", "dumped", "written"}
  /\ pc' = "failed"
  /\ ranks_dir' \in IF pc = "dumping"
                    THEN {[ranks_dir EXCEPT ![WEEK] = file] : file \in cut_snapshots(leaderboard_list)}
                    ELSE {ranks_dir}
  /\ output_file' \in IF pc = "dumped"
                      THEN {output_file, cut_output(WEEK)}
                      ELSE {output_file}
  /\ leaderboard_list' = <<>>
  /\ ranks_at_start' = None
  /\ repeat' = FALSE
  /\ UNCHANGED <<weekly_dir, INCLUDE_PLAYOFFS, playoff_file, WEEK>>
  /\ UNCHANGED <<rankVars, weeklyVars, scanVars, streakVars, combinedVars, nameVars, marginVars>>

Next == SnStart \/ SnOpenRanks \/ SnDump \/ SnWriteOutput \/ SnReturn \/ SnFail

Spec == Init /\ [][Next]_vars

\* The rows of the CSV the invocation has just written
WrittenRows == output_file[1].rows

\* u has an entry in the RankSnapshot of the period before WEEK: the snapshot
\* file exists, is a complete document, and lists u
InPrevSnapshot(u) ==
  LET file == ranks_dir[WEEK - 1]
  IN /\ file # None
     /\ file[1].closed
     /\ \E i \in 1..Len(file[1].entries) : file[1].entries[i].Username = u

\* What a movement column shows for a ranked participant who is not new
MovementShown ==
  {NeutralIndicator} \cup {UpIndicator(m) : m \in 1..Cardinality(SnUsers)}
                     \cup {DownIndicator(m) : m \in 1..Cardinality(SnUsers)}

\* C8: in the rows a season run writes, a participant without an entry in the
\* previous period's RankSnapshot has the 'new' indicator in both movement
\* columns, never an up, down or neutral one; a participant with an entry in
\* it has the 'new' indicator in neither.
C8_NewIndicator ==
  pc = "written" =>
    \A i \in 1..Len(WrittenRows) :
      LET row == WrittenRows[i]
      IN IF InPrevSnapshot(row.Username)
         THEN /\ row.DenseRankMovement # NewIndicator
              /\ row.StandardRankMovement # NewIndicator
         ELSE /\ row.DenseRankMovement = NewIndicator
              /\ row.StandardRankMovement = NewIndicator
              /\ NewIndicator \notin MovementShown

\* C8 witness: the run for week 2 writes a new entrant beside a participant the
\* week 1 snapshot lists
C8_Witness ==
  /\ pc = "written" /\ WEEK = 2
  /\ \E i, j \in 1..Len(WrittenRows) :
       /\ ~InPrevSnapshot(WrittenRows[i].Username)
       /\ WrittenRows[i].DenseRankMovement = NewIndicator
       /\ WrittenRows[i].StandardRankMovement = NewIndicator
       /\ InPrevSnapshot(WrittenRows[j].Username)
       /\ WrittenRows[j].DenseRankMovement \in MovementShown
       /\ WrittenRows[j].StandardRankMovement \in MovementShown

\* C9: when a season run fails, at whatever step, the snapshot file of its week
\* is what it was when the run started (absent included) or the complete new
\* mapping, never a partial one.
C9_SnapshotAtomic ==
  [][(pc # "failed" /\ pc' = "failed") =>
       LET at_start == IF Returned THEN ranks_dir[WEEK'] ELSE ranks_at_start
       IN \/ ranks_dir'[WEEK'] = at_start
          \/ ranks_dir'[WEEK'] = complete_snapshot(leaderboard_list)]_vars

\* C10: a run for week N that directly follows a completed run for week N, the
\* weekly files and the week N-1 snapshot being what they were, writes the
\* rows and columns the first run wrote and leaves the week N snapshot as the
\* first run left it.
C10_Idempotent ==
  [][(pc = "dumped" /\ pc' = "written" /\ repeat) =>
       /\ output_file' = output_file
       /\ ranks_dir'[WEEK] = ranks_at_start]_vars

\* C10 witness: week 2 has been run twice in a row, a participant moving
\* against the week 1 snapshot
C10_Witness ==
  /\ pc = "written" /\ repeat /\ WEEK = 2
  /\ ranks_dir[2] = complete_snapshot(WrittenRows)
  /\ \E i \in 1..Len(WrittenRows) :
       WrittenRows[i].DenseRankMovement \in {UpIndicator(1), DownIndicator(1)}

\* The snapshot file of the period before `week` is absent, or json.load does
\* not make a document of it: its bytes are not UTF-8, or its text is not a
\* complete JSON document
PrevSnapshotUnusable(week) ==
  \/ ranks_dir[week - 1] = None
  \/ ~ranks_dir[week - 1][1].utf8
  \/ ~ranks_dir[week - 1][1].closed

\* C19: a season run for a week that has weekly files, started while the
\* previous period's RankSnapshot is absent or does not parse, ranks the
\* participants with the 'new' indicator in both movement columns of every row
\* and goes on to its writes; and its snapshot write leaves a complete
\* document that lists the participants of the rows in order, each with its
\* Standard and its Dense rank.
C19_NoPreviousSnapshot ==
  [][/\ (Returned /\ PrevSnapshotUnusable(WEEK') /\ selected_files(weekly_dir, WEEK') # <<>>) =>
          /\ pc' = "ranked"
          /\ \A i \in 1..Len(leaderboard_list') :
               /\ leaderboard_list'[i].DenseRankMovement = NewIndicator
               /\ leaderboard_list'[i].StandardRankMovement = NewIndicator
     /\ (pc = "dumping" /\ pc' = "dumped" /\ PrevSnapshotUnusable(WEEK)) =>
          /\ ranks_dir'[WEEK] # None
          /\ ranks_dir'[WEEK][1].closed /\ ranks_dir'[WEEK][1].utf8
          /\ Len(ranks_dir'[WEEK][1].entries) = Len(leaderboard_list)
          /\ \A i \in 1..Len(leaderboard_list) :
               LET e == ranks_dir'[WEEK][1].entries[i]
               IN /\ e.Username = leaderboard_list[i].Username
                  /\ e.standard = leaderboard_list[i].StandardRank
                  /\ e.dense = leaderboard_list[i].DenseRank]_vars

-----------------------------------------------------------------------------
(* SpecFold: one complete, undisturbed invocation of generate_leaderboard of *)
(* 3a-generate_overall_winner_leaderboard.py over every directory of weekly  *)
(* files, with and without the playoff bonus.                                *)

InitFold ==
  /\ weekly_dir \in [1..MaxWeek -> WeeklyFiles]
  /\ INCLUDE_PLAYOFFS \in BOOLEAN
  /\ playoff_file \in WeeklyFiles
  /\ ranks_dir = [w \in 0..MaxWeek |-> None]
  /\ output_file = None
  /\ WEEK = 0
  /\ leaderboard_list = <<>>
  /\ pc = "idle"
  /\ ranks_at_start = None
  /\ repeat = FALSE
  /\ RankIdle /\ WeeklyIdle /\ ScanIdle /\ StreakIdle /\ CombinedIdle /\ NamesIdle /\ MarginIdle

\* Lines 91-209: the invocation for week n from its first line to its return
FoldRun ==
  /\ pc = "idle"
  /\ \E n \in 1..MaxWeek :
       /\ WEEK' = n
       /\ IF selected_files(weekly_dir, n) = <<>>
          THEN /\ pc' = "returned_none"
               /\ UNCHANGED <<leaderboard_list, ranks_dir, output_file>>
          ELSE LET ranked == ranked_leaderboard(weekly_dir, INCLUDE_PLAYOFFS,
                                                playoff_file, ranks_dir, n)
               IN /\ leaderboard_list' = ranked
                  /\ ranks_dir' = [ranks_dir EXCEPT ![n] = complete_snapshot(ranked)]
                  /\ output_file' =
                       Some([week |-> n,
                             columns |-> season_columns(selected_files(weekly_dir, n),
                                                        INCLUDE_PLAYOFFS),
                             rows |-> ranked, cut |-> FALSE])
                  /\ pc' = "returned"
  /\ UNCHANGED <<weekly_dir, INCLUDE_PLAYOFFS, playoff_file, ranks_at_start, repeat>>
  /\ UNCHANGED <<rankVars, weeklyVars, scanVars, streakVars, combinedVars, nameVars, marginVars>>

NextFold == FoldRun

SpecFold == InitFold /\ [][NextFold]_vars

\* The weeks whose aggregate the run for WEEK reads, and whether it reads the
\* bonus collection
InputWeeks == {w \in 1..MaxWeek : w <= WEEK /\ weekly_dir[w] # None}
BonusRead == INCLUDE_PLAYOFFS /\ playoff_file # None

\* The column of week w, and the columns the output is to have
ColumnOf(w) == "Week" \o ToString(w)
ExpectedColumns ==
  {ColumnOf(w) : w \in InputWeeks} \cup (IF INCLUDE_PLAYOFFS THEN {"Playoffs"} ELSE {})

\* The participants of the inputs, and the points of participant u in a column
\* (0 without a record)
InputParticipants ==
  UNION {DOMAIN weekly_dir[w][1] : w \in InputWeeks}
    \cup (IF BonusRead THEN DOMAIN playoff_file[1] ELSE {})
RecordedPoints(u, col) ==
  IF col = "Playoffs"
  THEN (IF BonusRead /\ u \in DOMAIN playoff_file[1] THEN playoff_file[1][u] ELSE 0)
  ELSE LET w == CHOOSE x \in InputWeeks : ColumnOf(x) = col
       IN IF u \in DOMAIN weekly_dir[w][1] THEN weekly_dir[w][1][u] ELSE 0

\* C14: the rows of the season output are one per participant of the selected
\* weekly aggregates and of the bonus collection when it is included; every
\* row has a value for every column (one per input week, plus the bonus
\* column when included), 0 where the participant has no record; and Total
\* is the sum of exactly those values.
C14_SeasonColumns ==
  pc = "returned" =>
    /\ {WrittenRows[i].Username : i \in 1..Len(WrittenRows)} = InputParticipants
    /\ Len(WrittenRows) = Cardinality(InputParticipants)
    /\ Range(output_file[1].columns) = ExpectedColumns
    /\ \A i \in 1..Len(WrittenRows) :
         LET row == WrittenRows[i]
         IN /\ DOMAIN row.Weeks = ExpectedColumns
            /\ \A col \in ExpectedColumns :
                 row.Weeks[col] = RecordedPoints(row.Username, col)
            /\ row.Total = SumOver(row.Weeks, ExpectedColumns)

\* C14 witness: two weeks and the bonus are read; one participant is in the
\* bonus collection only, the other has no record in week 2 and none in the
\* bonus collection
C14_Witness ==
  /\ pc = "returned" /\ InputWeeks = {1, 2} /\ BonusRead
  /\ \E i, j \in 1..Len(WrittenRows) :
       /\ WrittenRows[i].Weeks = [c \in ExpectedColumns |-> IF c = "Playoffs" THEN 1 ELSE 0]
       /\ WrittenRows[i].Username \notin DOMAIN weekly_dir[1][1] \cup DOMAIN weekly_dir[2][1]
       /\ WrittenRows[i].Total = 1
       /\ WrittenRows[j].Weeks = [c \in ExpectedColumns |-> IF c = ColumnOf(1) THEN 1 ELSE 0]
       /\ WrittenRows[j].Username \notin DOMAIN weekly_dir[2][1] \cup DOMAIN playoff_file[1]

\* The weeks up to the cutoff that have no weekly file
AbsentWeeks == {w \in 1..MaxWeek : w <= WEEK /\ weekly_dir[w] = None}

\* C18: a week up to the cutoff without a source does not stop the Season
\* Aggregator: as long as one weekly source up to the cutoff exists the run
\* returns its output, the absent week has no column, the other weeks are
\* aggregated and ranked, and the snapshot of the week is written with every
\* participant.
C18_MissingWeek ==
  /\ pc = "returned_none" => InputWeeks = {}
  /\ pc = "returned" =>
       /\ InputWeeks # {}
       /\ \A w \in AbsentWeeks : ColumnOf(w) \notin Range(output_file[1].columns)
       /\ \A w \in InputWeeks : ColumnOf(w) \in Range(output_file[1].columns)
       /\ \A u \in InputParticipants : \E i \in 1..Len(WrittenRows) :
            /\ WrittenRows[i].Username = u
            /\ WrittenRows[i].StandardRank =
                 1 + Cardinality({j \in 1..Len(WrittenRows) :
                                    WrittenRows[j].Total > WrittenRows[i].Total})
            /\ WrittenRows[i].Total =
                 SumOver([w \in InputWeeks |-> RecordedPoints(u, ColumnOf(w))], InputWeeks)
                   + RecordedPoints(u, "Playoffs")
       /\ ranks_dir[WEEK] # None
       /\ snapshot_parses(ranks_dir[WEEK][1])
       /\ DOMAIN snapshot_dict(ranks_dir[WEEK][1]) = InputParticipants

\* C18 witness: week 1 has no file, the run for week 2 ranks the two
\* participants of week 2 and writes the snapshot
C18_Witness ==
  /\ pc = "returned" /\ WEEK = 2 /\ AbsentWeeks = {1}
  /\ output_file[1].columns = <<ColumnOf(2)>>
  /\ Len(WrittenRows) = 2
  /\ WrittenRows[1].Total > WrittenRows[2].Total
  /\ WrittenRows[2].StandardRank = 2
  /\ ranks_dir[2] = complete_snapshot(WrittenRows)

-----------------------------------------------------------------------------
(* SpecCombined: one invocation of generate_leaderboard of                   *)
(* 4-generate_overall_leaderboard.py (INCLUDE_PLAYOFFS = False, line 10)     *)
(* for every week, every pair of overall files of that week and a store     *)
(* that earlier invocations may have filled.                                 *)

\* The participants of the overall files and the weeks they may have a column for
CbUsers == {"a", "b"}
CbColumns == {1, 2}

\* An overall file of script 3a or 3b: whether its header has Username,
\* Display Name and Total, the weeks it has a 'Week<k>' column for, and the
\* points of its rows.  A file without the three fields is not read further.
OverallFiles ==
  {None}
    \cup {Some([fields_ok |-> FALSE, weeks |-> {}, rows |-> EmptyMap])}
    \cup UNION {{Some([fields_ok |-> TRUE, weeks |-> W, rows |-> r]) :
                   r \in UNION {[U -> [W -> WeekTotals]] : U \in SUBSET CbUsers}} :
                 W \in SUBSET CbColumns}

\* Snapshot files earlier invocations can have left: none, the complete ranking
\* of two participants, and the unfinished file of a failed invocation, cut
\* between two characters or inside the bytes of one
StoredSnapshots ==
  {None,
   Some([entries |-> <<[Username |-> "a", dense |-> 1, standard |-> 1],
                       [Username |-> "b", dense |-> 2, standard |-> 2]>>,
         closed |-> TRUE, utf8 |-> TRUE]),
   Some([entries |-> <<>>, closed |-> FALSE, utf8 |-> TRUE]),
   Some([entries |-> <<>>, closed |-> FALSE, utf8 |-> FALSE])}

\* Lines 140 and 171: week_key = f"{poll_type}_Week{week}"
combined_week_key(poll_type, week) == poll_type \o "_Week" \o ToString(week)

\* Lines 126-154 and 157-185: the rows of one overall file stored under the
\* week keys of its poll type, for the weeks 1..week_num the file has a column for
read_overall(leaderboard, poll_type, file, week) ==
  IF file = None THEN leaderboard
  ELSE IF ~file[1].fields_ok THEN leaderboard
  ELSE [u \in DOMAIN leaderboard \cup DOMAIN file[1].rows |->
          LET old == IF u \in DOMAIN leaderboard THEN leaderboard[u] ELSE EmptyMap
              read == IF u \in DOMAIN file[1].rows
                      THEN {k \in file[1].weeks : k \in 1..week}
                      ELSE {}
          IN [c \in DOMAIN old \cup {combined_week_key(poll_type, k) : k \in read} |->
                IF \E k \in read : c = combined_week_key(poll_type, k)
                THEN file[1].rows[u][CHOOSE k \in read : c = combined_week_key(poll_type, k)]
                ELSE old[c]]]

\* Lines 146 and 177: week_columns, the keys some row was stored under
week_columns(leaderboard) == UNION {DOMAIN leaderboard[u] : u \in DOMAIN leaderboard}

\* Line 192: the keys of week_columns by week, Winner before Margin
RECURSIVE combined_columns(_, _, _)
combined_columns(cols, week, upto) ==
  IF week > upto THEN <<>>
  ELSE SelectSeq(<<combined_week_key("Winner", week), combined_week_key("Margin", week)>>,
                 LAMBDA c : c \in cols)
         \o combined_columns(cols, week + 1, upto)

\* Mutant: an invocation without data writes the snapshot of its empty ranking
\* before it returns None
generate_leaderboard_touch(winner, margin, store, week) ==
  [result |-> "returned_none",
   ranks |-> [store EXCEPT ![week] = complete_snapshot(<<>>)],
   output |-> None]

\* Lines 99-232: the result of the invocation, the snapshot store and the
\* combined CSV it leaves.  With a source file present, a previous snapshot
\* that is not UTF-8 ends it in the UnicodeDecodeError of line 117, which
\* except json.JSONDecodeError (line 118) does not catch.
generate_leaderboard(winner, margin, store, week) ==
  IF winner = None /\ margin = None
  THEN [result |-> "returned_none", ranks |-> store, output |-> None]
  ELSE IF load_prev_raises(store, week)
  THEN [result |-> "raised", ranks |-> store, output |-> None]
  ELSE LET leaderboard == read_overall(read_overall(EmptyMap, "Winner", winner, week),
                                       "Margin", margin, week)
           columns == combined_columns(week_columns(leaderboard), 1, week)
           ranked == calculate_ranks(SortByTotal(season_entries(leaderboard, columns),
                                                 "Total"),
                                     "Total", load_prev_ranks(store, week))
       IN IF DOMAIN leaderboard = {}
          THEN [result |-> "returned_none", ranks |-> store, output |-> None]
          ELSE [result |-> "returned",
                ranks |-> [store EXCEPT ![week] = complete_snapshot(ranked)],
                output |-> Some([week |-> week, columns |-> columns, rows |-> ranked,
                                 cut |-> FALSE])]

InitCombined ==
  /\ week_num \in 1..MaxWeek
  /\ winner_file \in OverallFiles
  /\ margin_file \in OverallFiles
  /\ dirs_made \in BOOLEAN
  /\ combined_ranks \in [0..MaxWeek -> StoredSnapshots]
  /\ combined_ranks[0] = None
  /\ ~dirs_made => \A w \in 0..MaxWeek : combined_ranks[w] = None
  /\ combined_output = None
  /\ cb_pc = "idle"
  /\ RankIdle /\ WeeklyIdle /\ ScanIdle /\ StreakIdle /\ SeasonIdle
  /\ NamesIdle /\ MarginIdle

\* Lines 83-232: the invocation from its first line to its return.  The two
\* directories are made (lines 96-97) before the sources are looked for.
CbRun ==
  /\ cb_pc = "idle"
  /\ LET done == generate_leaderboard(winner_file, margin_file, combined_ranks, week_num)
     IN /\ dirs_made' = TRUE
        /\ combined_ranks' = done.ranks
        /\ combined_output' = IF done.output = None THEN combined_output ELSE done.output
        /\ cb_pc' = done.result
  /\ UNCHANGED <<week_num, winner_file, margin_file>>
  /\ UNCHANGED <<rankVars, weeklyVars, scanVars, streakVars, seasonVars, nameVars, marginVars>>

NextCombined == CbRun

SpecCombined == InitCombined /\ [][NextCombined]_vars

\* C20: an invocation of the combined rollup that finds neither the winner nor
\* the margin file of its week returns None, writes no combined CSV and leaves
\* every snapshot file of the store as it was.
C20_NoSource ==
  [][(cb_pc = "idle" /\ cb_pc' # "idle" /\ winner_file = None /\ margin_file = None) =>
       /\ cb_pc' = "returned_none"
       /\ combined_output' = None
       /\ combined_ranks' = combined_ranks]_vars

\* C20 witness: the invocation for week 2 found no source and returned None;
\* the store still holds the week 1 snapshot and nothing else
C20_Witness ==
  /\ cb_pc = "returned_none" /\ week_num = 2
  /\ winner_file = None /\ margin_file = None
  /\ combined_output = None
  /\ combined_ranks[1] # None /\ combined_ranks[1][1].closed
  /\ combined_ranks[2] = None

-----------------------------------------------------------------------------
(* Empty input *)

\* combine_csv_files has returned or raised
WeeklyEnded == wk_pc \in {"no_files", "no_valid", "done", "raised"}

\* C21: empty input is not an error: the Match Aggregator run over a week
\* without any match file ends normally with an empty output, as the Ranker
\* does on an empty list, instead of returning the error outcome None.
C21_EmptyInput ==
  (WeeklyEnded /\ files_seen = 0) =>
    /\ wk_pc = "done"
    /\ weekly_out # None
    /\ WeeklyRows = <<>>

-----------------------------------------------------------------------------
(* SpecLong: one invocation of generate_leaderboard of                       *)
(* 3a-generate_overall_winner_leaderboard.py in a season whose week numbers  *)
(* reach two digits.                                                         *)

\* The weeks that may have a weekly file, and the last of them
LongWeeks == {1, 2, 9, 10, 11}
LastLongWeek == 11

\* A weekly file of the long season: absent, or the one row of participant a
LongFiles == {None, Some([u \in {"a"} |-> 1])}

InitLong ==
  /\ weekly_dir \in [LongWeeks -> LongFiles]
  /\ INCLUDE_PLAYOFFS \in BOOLEAN
  /\ playoff_file = None
  /\ ranks_dir = [w \in 0..LastLongWeek |-> None]
  /\ output_file = None
  /\ WEEK = 0
  /\ leaderboard_list = <<>>
  /\ pc = "idle"
  /\ ranks_at_start = None
  /\ repeat = FALSE
  /\ RankIdle /\ WeeklyIdle /\ ScanIdle /\ StreakIdle /\ CombinedIdle /\ NamesIdle /\ MarginIdle

\* Lines 198-199: fieldnames
season_fieldnames(columns) ==
  <<"Dense Rank", "Dense Rank Movement", "Standard Rank", "Standard Rank Movement",
    "Username", "Display Name">> \o columns \o <<"Total">>

\* Lines 91-209: the invocation for week n from its first line to its return
LongRun ==
  /\ pc = "idle"
  /\ \E n \in LongWeeks :
       /\ WEEK' = n
       /\ IF selected_files(weekly_dir, n) = <<>>
          THEN /\ pc' = "returned_none"
               /\ UNCHANGED <<leaderboard_list, ranks_dir, output_file>>
          ELSE LET ranked == ranked_leaderboard(weekly_dir, INCLUDE_PLAYOFFS,
                                                playoff_file, ranks_dir, n)
               IN /\ leaderboard_list' = ranked
                  /\ ranks_dir' = [ranks_dir EXCEPT ![n] = complete_snapshot(ranked)]
                  /\ output_file' =
                       Some([week |-> n,
                             columns |-> season_columns(selected_files(weekly_dir, n),
                                                        INCLUDE_PLAYOFFS),
                             rows |-> ranked, cut |-> FALSE])
                  /\ pc' = "returned"
  /\ UNCHANGED <<weekly_dir, INCLUDE_PLAYOFFS, playoff_file, ranks_at_start, repeat>>
  /\ UNCHANGED <<rankVars, weeklyVars, scanVars, streakVars, combinedVars, nameVars, marginVars>>

NextLong == LongRun

SpecLong == InitLong /\ [][NextLong]_vars

\* The weeks of S in ascending order of their number
RECURSIVE Ascending(_)
Ascending(S) ==
  IF S = {} THEN <<>>
  ELSE LET w == CHOOSE x \in S : \A y \in S : x <= y
       IN <<w>> \o Ascending(S \ {w})

\* The weeks up to the cutoff that have a weekly file
WeeksRead == {w \in DOMAIN weekly_dir : w <= WEEK /\ weekly_dir[w] # None}

\* C22: the fields of the season output are the rank columns, then Username
\* and Display Name, then the week columns by ascending week number, whatever
\* the number of weeks, then Playoffs when included, then Total.
C22_ColumnOrder ==
  pc = "returned" =>
    season_fieldnames(output_file[1].columns) =
      <<"Dense Rank", "Dense Rank Movement", "Standard Rank", "Standard Rank Movement">>
        \o <<"Username", "Display Name">>
        \o [i \in 1..Cardinality(WeeksRead) |-> ColumnOf(Ascending(WeeksRead)[i])]
        \o (IF INCLUDE_PLAYOFFS THEN <<"Playoffs">> ELSE <<>>)
        \o <<"Total">>

-----------------------------------------------------------------------------
(* SpecNames: the display name the weekly, the season and the detailed      *)
(* aggregator keep for a username, over one sequence of records.            *)

MaxRecords == 4   \* records in the processed sequence

NmUsers == {"a", "b"}

\* The Display Name field of a record; "" is an empty field
DisplayNames == {"", "A", "B"}

\* 2-generate_weekly_leaderboard.py lines 79-87:
\* user_data[username]['Display Name'] = display_name
weekly_set_display(ud, username, display_name) == Put(ud, username, display_name)

\* 3a-generate_overall_winner_leaderboard.py lines 140-146:
\* leaderboard[username]['Display Name'] = display_name
season_set_display(leaderboard, username, display_name) ==
  Put(leaderboard, username, display_name)

\* 5a-generate_detailed_winner_leaderboard.py lines 85-90: the defaultdict
\* entry starts with '', and the name is stored only while the entry holds ''
detailed_set_display(combined_data, username, display_name) ==
  LET old == IF username \in DOMAIN combined_data THEN combined_data[username] ELSE ""
  IN Put(combined_data, username,
         IF old = "" /\ display_name # "" THEN display_name ELSE old)

InitNames ==
  /\ records_seen = 0
  /\ last_name = EmptyMap
  /\ weekly_display = EmptyMap
  /\ season_display = EmptyMap
  /\ detailed_display = EmptyMap
  /\ RankIdle /\ WeeklyIdle /\ ScanIdle /\ StreakIdle /\ SeasonIdle /\ CombinedIdle
  /\ MarginIdle

\* The next record of the sequence is read by each of the three aggregators
NmRecord ==
  /\ records_seen < MaxRecords
  /\ \E username \in NmUsers, display_name \in DisplayNames :
       /\ last_name' = Put(last_name, username, display_name)
       /\ weekly_display' = weekly_set_display(weekly_display, username, display_name)
       /\ season_display' = season_set_display(season_display, username, display_name)
       /\ detailed_display' = detailed_set_display(detailed_display, username, display_name)
  /\ records_seen' = records_seen + 1
  /\ UNCHANGED <<rankVars, weeklyVars, scanVars, streakVars, seasonVars, combinedVars,
                 marginVars>>

NextNames == NmRecord

SpecNames == InitNames /\ [][NextNames]_vars

\* The display names kept in dict d are those of each username's last record
LastNameWins(d) ==
  /\ DOMAIN d = DOMAIN last_name
  /\ \A u \in DOMAIN last_name : d[u] = last_name[u]

\* C23: after any sequence of records the display name each of the three
\* aggregators holds for a username, and so writes in its row, is the one of
\* the last record processed for that username.
C23_LastNameWins ==
  /\ LastNameWins(weekly_display)
  /\ LastNameWins(season_display)
  /\ LastNameWins(detailed_display)

-----------------------------------------------------------------------------
(* Default fill of the Match Aggregator *)

\* The default sub-period value of lines 96-97
DefaultRecord == [Team_Short |-> "---", Points |-> 0]

\* C24: when the Match Aggregator closes a match, every participant it has a
\* row for from an earlier match and who has no record in this match holds the
\* default ('---', 0.0) under this match's label and keeps the total it had,
\* and the records of the participants of this match are left as read; what a
\* row holds for a closed match, default or real, never changes afterwards.
C24_DefaultFill ==
  [][/\ (wk_pc = "rows" /\ wk_pc' = "loop" /\ match_number' = match_number + 1) =>
          /\ \A u \in DOMAIN user_data \ match_users :
               /\ match_number \in DOMAIN user_data'[u].Match
               /\ user_data'[u].Match[match_number] = DefaultRecord
               /\ user_data'[u].Total_Points = user_data[u].Total_Points
          /\ \A u \in match_users : user_data'[u] = user_data[u]
     /\ \A u \in DOMAIN user_data : \A k \in DOMAIN user_data[u].Match :
          k < match_number =>
            /\ u \in DOMAIN user_data'
            /\ k \in DOMAIN user_data'[u].Match
            /\ user_data'[u].Match[k] = user_data[u].Match[k]]_vars

-----------------------------------------------------------------------------
(* SpecMargin: process_poll_to_csv of 1b-generate_margin_results.py on one  *)
(* margin poll.                                                              *)

MaxMargin == 2    \* the margin is 0..MaxMargin runs or wickets, or a Super Over
MaxBallots == 2   \* votes in the poll

\* Line 148: match_points
MatchPoints == {1, 2}

\* The answers of a poll as parse_answer_range reads their names:
\* "Win by 1-2 runs OR by 2+ wickets", "Win by 3+ runs OR by 1 wicket",
\* "Win by Super Over".  A bound that is not in the name is None.
AnswerPool ==
  <<[id |-> 1, run_min |-> Some(1), run_max |-> Some(2),
     wicket_min |-> Some(2), wicket_max |-> None, is_super_over |-> FALSE],
    [id |-> 2, run_min |-> Some(3), run_max |-> None,
     wicket_min |-> Some(1), wicket_max |-> None, is_super_over |-> FALSE],
    [id |-> 3, run_min |-> None, run_max |-> None,
     wicket_min |-> None, wicket_max |-> None, is_super_over |-> TRUE]>>

\* json_data['answers']: some of the answers of the pool, in poll order
RECURSIVE Pick(_, _)
Pick(lst, keep) ==
  IF lst = <<>> THEN <<>>
  ELSE (IF Head(lst).id \in keep THEN <<Head(lst)>> ELSE <<>>) \o Pick(Tail(lst), keep)
AnswerLists == {Pick(AnswerPool, keep) : keep \in SUBSET {1, 2, 3}}

\* Lines 9-28: what parse_margin returns for "<n> runs", "<n> wickets" and
\* "Super Over"
Margins ==
  {[number |-> Some(n), unit |-> u] : n \in 0..MaxMargin, u \in {"runs", "wickets"}}
    \cup {[number |-> None, unit |-> "super_over"]}

\* Line 167: vote.get('answerId') is the id of an answer of the poll, an id no
\* answer has, or None when the vote carries no answerId
UnknownAnswerId == 9
AnswerIds == {Some(1), Some(2), Some(3), Some(UnknownAnswerId), None}
MgUsers == {"a", "b"}
Ballots == [username : MgUsers, answerId : AnswerIds]

\* Lines 107-115: the range test of one unit; max None is open-ended or single
in_range(number, min, max) ==
  IF max = None THEN number >= min[1]
  ELSE min[1] <= number /\ number <= max[1]

\* Lines 86-117: the first answer that matches the margin, or None
RECURSIVE find_winning_answer(_, _, _)
find_winning_answer(margin_number, margin_unit, answer_list) ==
  IF answer_list = <<>> THEN None
  ELSE LET answer == Head(answer_list)
           rest == find_winning_answer(margin_number, margin_unit, Tail(answer_list))
       IN IF margin_unit = "super_over" /\ answer.is_super_over THEN Some(answer)
          ELSE IF margin_unit = "runs" /\ answer.run_min # None
          THEN (IF in_range(margin_number[1], answer.run_min, answer.run_max)
                THEN Some(answer) ELSE rest)
          ELSE IF margin_unit = "wickets" /\ answer.wicket_min # None
          THEN (IF in_range(margin_number[1], answer.wicket_min, answer.wicket_max)
                THEN Some(answer) ELSE rest)
          ELSE rest

\* Line 170: points = match_points if answer_id == winning_answer_id else 0
vote_points(answer_id, winning_id, points) ==
  IF answer_id = winning_id THEN points ELSE 0

\* Line 181: csv_rows.sort(key=lambda x: x['Username']), a stable sort
RECURSIVE sort_by_username(_)
sort_by_username(rows) ==
  IF rows = <<>> THEN <<>>
  ELSE LET e == rows[Len(rows)]
           front == sort_by_username(SubSeq(rows, 1, Len(rows) - 1))
           ahead == {i \in 1..Len(front) : ~NameLess(e.Username, front[i].Username)}
       IN SubSeq(front, 1, Cardinality(ahead)) \o <<e>>
            \o SubSeq(front, Cardinality(ahead) + 1, Len(front))

InitMargin ==
  /\ poll_margin \in Margins
  /\ answers \in AnswerLists
  /\ match_points \in MatchPoints
  /\ poll_votes \in SeqsUpTo(Ballots, MaxBallots)
  /\ winning_answer_id = None
  /\ csv_rows = <<>>
  /\ mg_pc = "start"
  /\ RankIdle /\ WeeklyIdle /\ ScanIdle /\ StreakIdle /\ SeasonIdle /\ CombinedIdle
  /\ NamesIdle

\* Lines 150-152: winning_answer and winning_answer_id
MgFind ==
  /\ mg_pc = "start"
  /\ LET winning_answer == find_winning_answer(poll_margin.number, poll_margin.unit, answers)
     IN winning_answer_id' = IF winning_answer = None THEN None
                             ELSE Some(winning_answer[1].id)
  /\ mg_pc' = "votes"
  /\ UNCHANGED <<poll_margin, answers, match_points, poll_votes, csv_rows>>
  /\ UNCHANGED <<rankVars, weeklyVars, scanVars, streakVars, seasonVars, combinedVars,
                 nameVars>>

\* Lines 163-178: the next vote becomes a row
MgVote ==
  /\ mg_pc = "votes"
  /\ Len(csv_rows) < Len(poll_votes)
  /\ LET vote == poll_votes[Len(csv_rows) + 1]
     IN csv_rows' = Append(csv_rows,
                           [Username |-> vote.username,
                            answer_id |-> vote.answerId,
                            Points |-> vote_points(vote.answerId, winning_answer_id,
                                                   match_points)])
  /\ UNCHANGED <<poll_margin, answers, match_points, poll_votes, winning_answer_id, mg_pc>>
  /\ UNCHANGED <<rankVars, weeklyVars, scanVars, streakVars, seasonVars, combinedVars,
                 nameVars>>

\* Lines 180-190: the rows are sorted by username and written
MgWrite ==
  /\ mg_pc = "votes"
  /\ Len(csv_rows) = Len(poll_votes)
  /\ csv_rows' = sort_by_username(csv_rows)
  /\ mg_pc' = "written"
  /\ UNCHANGED <<poll_margin, answers, match_points, poll_votes, winning_answer_id>>
  /\ UNCHANGED <<rankVars, weeklyVars, scanVars, streakVars, seasonVars, combinedVars,
                 nameVars>>

NextMargin == MgFind \/ MgVote \/ MgWrite

SpecMargin == InitMargin /\ [][NextMargin]_vars

\* Answer a of the poll covers the declared margin
Covers(a) ==
  \/ poll_margin.unit = "super_over" /\ a.is_super_over
  \/ /\ poll_margin.unit = "runs" /\ a.run_min # None
     /\ poll_margin.number[1] >= a.run_min[1]
     /\ a.run_max # None => poll_margin.number[1] <= a.run_max[1]
  \/ /\ poll_margin.unit = "wickets" /\ a.wicket_min # None
     /\ poll_margin.number[1] >= a.wicket_min[1]
     /\ a.wicket_max # None => poll_margin.number[1] <= a.wicket_max[1]

\* No answer of the poll covers the declared margin
NoAnswerCovers == \A i \in 1..Len(answers) : ~Covers(answers[i])

\* C25: when no answer of a margin poll covers the declared margin, every row
\* written for the match has 0 points, whatever the votes: votes for an answer
\* of the poll, votes with an unknown answer id and votes without an answer id.
C25_NoMatchScoresZero ==
  (mg_pc = "written" /\ NoAnswerCovers) =>
    \A i \in 1..Len(csv_rows) : csv_rows[i].Points = 0

-----------------------------------------------------------------------------
(* The best run of the streak scan, at every step and in the entries          *)

\* The scan locals after the first k votes of vs have been scanned
win_scan_after(vs, k) == win_scan(SubSeq(vs, 1, k))
lose_scan_after(vs, k) == lose_scan(SubSeq(vs, 1, k))

\* The best run of the locals st, 0-based indices into vs, after k votes:
\* its length is max_user_streak, it holds qualifying outcomes only, and no
\* run of that length starts earlier
BestRunHolds(vs, k, st, what) ==
  /\ st.best_end_idx - st.best_start_idx + 1 = st.max_user_streak
  /\ st.best_end_idx < k
  /\ \A i \in st.best_start_idx..st.best_end_idx : Outcome(vs[i + 1]) = what
  /\ \A s \in 0..(st.best_start_idx - 1) :
       \E i \in s..(s + st.max_user_streak - 1) : i >= k \/ Outcome(vs[i + 1]) # what

\* Position of the vote for match `poll` in vs, 0-based
IndexOfPoll(vs, poll) == (CHOOSE i \in 1..Len(vs) : vs[i].poll = poll) - 1

\* The entries of a returned list: each is the best run of its participant,
\* no participant has a run of length 0 listed, none is listed twice
EntriesHold(lst, what) ==
  /\ \A i \in 1..Len(lst) :
       LET vs == VotesOf(lst[i].Username)
       IN /\ lst[i].streak_length > 0
          /\ RunLen(lst[i].Username, what) > 0
          /\ BestRunHolds(vs, Len(vs),
                          [max_user_streak |-> lst[i].streak_length,
                           best_start_idx |-> IndexOfPoll(vs, lst[i].start_poll),
                           best_end_idx |-> IndexOfPoll(vs, lst[i].end_poll)],
                          what)
  /\ \A i, j \in 1..Len(lst) : i # j => lst[i].Username # lst[j].Username

\* C27 as stated: at every step of the scan of every participant, the first
\* step included, and in every returned entry, best_end_idx - best_start_idx
\* + 1 = max_user_streak, the entries from best_start_idx to best_end_idx are
\* qualifying outcomes and the best run is the earliest of its length;
\* participants with longest run 0 are not listed and none is listed twice.
C27_BestRunAlways ==
  /\ \A u \in StreakUsers : \A k \in 0..Len(VotesOf(u)) :
       /\ BestRunHolds(VotesOf(u), k, win_scan_after(VotesOf(u), k), "won")
       /\ BestRunHolds(VotesOf(u), k, lose_scan_after(VotesOf(u), k), "lost")
  /\ EntriesHold(win_list, "won")
  /\ EntriesHold(lose_list, "lost")

\* C27 amended: the same, at the steps of the scan at which a qualifying
\* outcome has been seen (max_user_streak > 0), and in every returned entry.
C27_BestRun ==
  /\ \A u \in StreakUsers : \A k \in 0..Len(VotesOf(u)) :
       /\ win_scan_after(VotesOf(u), k).max_user_streak > 0
            => BestRunHolds(VotesOf(u), k, win_scan_after(VotesOf(u), k), "won")
       /\ lose_scan_after(VotesOf(u), k).max_user_streak > 0
            => BestRunHolds(VotesOf(u), k, lose_scan_after(VotesOf(u), k), "lost")
  /\ EntriesHold(win_list, "won")
  /\ EntriesHold(lose_list, "lost")

\* C27 witness: a participant who won, lost and won again is listed with the
\* first of the two runs of length 1, and a participant who never lost is not
\* in the losing list
C27_Witness ==
  /\ st_pc = "done"
  /\ \E i \in 1..Len(win_list) :
       /\ OutcomesOf(win_list[i].Username) = <<"won", "lost", "won">>
       /\ win_list[i].streak_length = 1
       /\ win_list[i].start_poll = 1 /\ win_list[i].end_poll = 1
  /\ \E u \in StreakUsers :
       /\ RunLen(u, "lost") = 0
       /\ Len(lose_list) = 1 /\ lose_list[1].Username # u

-----------------------------------------------------------------------------
(* A match file without rows in the Streak Analyzer *)

\* C28: a match file with zero records is not skipped as washed out: when it
\* is processed every participant recorded so far (those seen in an earlier
\* match that was not washed out) gets one more entry, an absence at that
\* match, their earlier entries stay, no participant is added, and the current
\* run of the winning scan and of the losing scan of each of them is 0 after it.
C28_EmptyMatchIsAbsence ==
  [][(st_pc = "poll" /\ st_pc' = "loop" /\ cur_poll[1] = <<>>)
       => /\ ~is_washed_out_match(cur_poll[1])
          /\ Len(streaks') = Len(streaks)
          /\ \A i \in 1..Len(streaks) :
               /\ streaks'[i].Username = streaks[i].Username
               /\ streaks'[i].votes =
                    Append(streaks[i].votes,
                           vote_of(match_file_of(polls_seen, cur_num), None))
               /\ win_scan(streaks'[i].votes).current_streak = 0
               /\ lose_scan(streaks'[i].votes).current_streak = 0]_vars

\* C28 witness: a file without rows between two matches: one participant won
\* both and one lost both, each is absent at match 2, and the reported runs
\* have length 1, not 2
C28_Witness ==
  /\ st_pc = "done" /\ polls_seen = 3
  /\ Cardinality(StreakUsers) = Cardinality(StUsers)
  /\ \A u \in StreakUsers :
       Len(VotesOf(u)) = 3 /\ VotesOf(u)[2].poll = 2 /\ VotesOf(u)[2].points = None
  /\ \E u, v \in StreakUsers :
       /\ OutcomesOf(u) = <<"won", "absent", "won">>
       /\ OutcomesOf(v) = <<"lost", "absent", "lost">>
       /\ excluded_set = {}
       /\ win_list = <<[Username |-> u, streak_length |-> 1, start_poll |-> 1,
                        end_poll |-> 1, start_num |-> 1]>>
       /\ lose_list = <<[Username |-> v, streak_length |-> 1, start_poll |-> 1,
                         end_poll |-> 1, start_num |-> 1]>>

-----------------------------------------------------------------------------
(* SpecSource: one invocation of generate_leaderboard of                     *)
(* 3a-generate_overall_winner_leaderboard.py over weekly files that may be   *)
(* unusable: a header without Total_Points, or a row that makes the reading  *)
(* raise (a short row, whose missing fields csv.DictReader fills with None,  *)
(* so that float(None) or None.strip() raises).                              *)

MaxSourceRows == 2     \* rows of one weekly file

\* A row of a weekly file: its Total_Points field, or None for a short row
SourceRowValues == [Username : SnUsers, Total_Points : {None, Some(1)}]

\* A weekly file: absent (None), or its header (with Total_Points or without)
\* and its rows in file order
SourceFiles ==
  {None} \cup {Some([has_total |-> h, rows |-> rs]) :
                 h \in BOOLEAN, rs \in SeqsUpTo(SourceRowValues, MaxSourceRows)}

\* Lines 139-147 under the try of line 133: the rows are stored one by one
\* until a row raises; the except of line 148 ends the reading of the file
RECURSIVE read_source_rows(_, _, _)
read_source_rows(leaderboard, key, rows) ==
  IF rows = <<>> THEN leaderboard
  ELSE IF Head(rows).Total_Points = None THEN leaderboard
  ELSE read_source_rows(
         read_week(leaderboard, key,
                   [u \in {Head(rows).Username} |-> Head(rows).Total_Points[1]]),
         key, Tail(rows))

\* Lines 133-149: one weekly file; without Total_Points in the header the
\* file is left by the continue of line 138
read_source(leaderboard, key, file) ==
  IF ~file.has_total THEN leaderboard
  ELSE read_source_rows(leaderboard, key, file.rows)

\* Lines 127-149: the loop over selected_files
RECURSIVE read_sources(_, _, _)
read_sources(dir, files, leaderboard) ==
  IF files = <<>> THEN leaderboard
  ELSE read_sources(dir, Tail(files),
                    read_source(leaderboard, week_key(Head(files)), dir[Head(files)][1]))

\* Lines 124-187 without the playoff bonus
source_ranked_leaderboard(dir, store, week) ==
  LET files == selected_files(dir, week)
      columns == season_columns(files, FALSE)
  IN calculate_ranks(
       SortByTotal(season_entries(read_sources(dir, files, EmptyMap), columns), "Total"),
       "Total", load_prev_ranks(store, week))

InitSource ==
  /\ weekly_dir \in [1..MaxWeek -> SourceFiles]
  /\ INCLUDE_PLAYOFFS = FALSE
  /\ playoff_file = None
  /\ ranks_dir = [w \in 0..MaxWeek |-> None]
  /\ output_file = None
  /\ WEEK = 0
  /\ leaderboard_list = <<>>
  /\ pc = "idle"
  /\ ranks_at_start = None
  /\ repeat = FALSE
  /\ RankIdle /\ WeeklyIdle /\ ScanIdle /\ StreakIdle /\ CombinedIdle /\ NamesIdle /\ MarginIdle

\* Lines 91-209: the invocation for week n from its first line to its return
SourceRun ==
  /\ pc = "idle"
  /\ \E n \in 1..MaxWeek :
       /\ WEEK' = n
       /\ IF selected_files(weekly_dir, n) = <<>>
          THEN /\ pc' = "returned_none"
               /\ UNCHANGED <<leaderboard_list, ranks_dir, output_file>>
          ELSE LET ranked == source_ranked_leaderboard(weekly_dir, ranks_dir, n)
               IN /\ leaderboard_list' = ranked
                  /\ ranks_dir' = [ranks_dir EXCEPT ![n] = complete_snapshot(ranked)]
                  /\ output_file' =
                       Some([week |-> n,
                             columns |-> season_columns(selected_files(weekly_dir, n), FALSE),
                             rows |-> ranked, cut |-> FALSE])
                  /\ pc' = "returned"
  /\ UNCHANGED <<weekly_dir, INCLUDE_PLAYOFFS, playoff_file, ranks_at_start, repeat>>
  /\ UNCHANGED <<rankVars, weeklyVars, scanVars, streakVars, combinedVars, nameVars, marginVars>>

NextSource == SourceRun

SpecSource == InitSource /\ [][NextSource]_vars

\* A weekly file that exists but cannot be used: its header lacks Total_Points
\* or reading it raises
Unusable(file) ==
  \/ ~file.has_total
  \/ \E i \in 1..Len(file.rows) : file.rows[i].Total_Points = None

\* The weeks up to the cutoff whose file exists, and those of them whose file
\* cannot be used
SourceWeeks == {w \in 1..MaxWeek : w <= WEEK /\ weekly_dir[w] # None}
UnusableWeeks == {w \in SourceWeeks : Unusable(weekly_dir[w][1])}

\* The points the usable files record for u
UsablePoints(u) ==
  Cardinality({w \in SourceWeeks \ UnusableWeeks :
                 \E i \in 1..Len(weekly_dir[w][1].rows) :
                   weekly_dir[w][1].rows[i].Username = u})

\* C29: whenever a weekly file up to the cutoff exists the run returns its
\* output; every file that exists but cannot be used has its week column in
\* the output, every participant has 0 in that column, and every total is the
\* sum of what the usable files record.
C29_UnusableSourceIsZero ==
  /\ SourceWeeks # {} => pc # "returned_none"
  /\ pc = "returned" =>
       /\ \A w \in UnusableWeeks :
            /\ week_key(w) \in Range(output_file[1].columns)
            /\ \A i \in 1..Len(output_file[1].rows) :
                 output_file[1].rows[i].Weeks[week_key(w)] = 0
       /\ \A i \in 1..Len(output_file[1].rows) :
            output_file[1].rows[i].Total = UsablePoints(output_file[1].rows[i].Username)

-----------------------------------------------------------------------------
(* The snapshots a season run reads and writes *)

\* A complete snapshot that no run of the model writes: the only rank is 2
DecoySnapshot ==
  Some([entries |-> <<[Username |-> "a", dense |-> 2, standard |-> 2]>>, closed |-> TRUE,
        utf8 |-> TRUE])

\* The store with every snapshot but that of the week before `week` replaced
OtherSnapshotsReplaced(store, week, file) ==
  [w \in DOMAIN store |-> IF w = prev_week_num(week) THEN store[w] ELSE file]

\* C30: in every step of a season run for week N every snapshot but that of
\* week N stays as it is; the ranked rows depend on no snapshot but that of
\* week N-1 (they are the same with every other snapshot replaced by another);
\* a run that returns None leaves the whole store as it is; and a run that
\* returns with the week N snapshot changed has written the week N output.
C30_SnapshotFrame ==
  [][/\ \A w \in DOMAIN ranks_dir : w # WEEK' => ranks_dir'[w] = ranks_dir[w]
     /\ (Returned /\ pc' = "ranked") =>
          leaderboard_list' =
            ranked_leaderboard(weekly_dir, INCLUDE_PLAYOFFS, playoff_file,
                               OtherSnapshotsReplaced(ranks_dir, WEEK', DecoySnapshot), WEEK')
     /\ pc' = "returned_none" => ranks_dir' = ranks_dir
     /\ (pc # "idle" /\ pc' = "idle" /\ ranks_dir'[WEEK] # ranks_at_start) =>
          /\ pc = "written"
          /\ output_file' # None /\ output_file'[1].week = WEEK
          /\ output_file'[1].rows = leaderboard_list]_vars

\* C30 witness: the run for week 2 wrote the week 2 snapshot and output, the
\* run for week 1 that follows finds no weekly file and returns None; the
\* store is what the first run left: week 2 complete, no other snapshot
C30_Witness ==
  /\ pc = "returned_none" /\ WEEK = 1
  /\ output_file # None /\ output_file[1].week = 2
  /\ ranks_dir[2] = complete_snapshot(output_file[1].rows)
  /\ Len(output_file[1].rows) = 2
  /\ ranks_dir[0] = None /\ ranks_dir[1] = None

====
